---- MODULE Spec2Model ----
(***************************************************************************)
(* Model of the service-update job of neboman11/python_jobs                *)
(* (src/jobs/service_update).  Strings are modelled as sequences of        *)
(* one-character strings so that split, regex matching, substring tests    *)
(* and natural sorting are computed character by character, as the Python  *)
(* code and the natsort library compute them.                              *)
(***************************************************************************)
EXTENDS Integers, Sequences, FiniteSets, TLC

VARIABLES
    \* ---- policy filters (filters.py) ----
    pol_pc,             \* "input" | "done" | "off"
    original_version,   \* update["original_version"] / update["current_tag"]
    new_version,        \* update["new_version"] / update["new_tag"]
    chart_safe,         \* result of chart_updates_with_minor_or_patch_filter
    image_safe,         \* result of image_updates_with_minor_or_patch_filter
    \* ---- registry tag resolver (image_utils.py) ----
    tag_pc,             \* "input" | "sorted" | "latest" | "off"
    tags,               \* what the registry fetch returned: a list or None
    sorted_tags,        \* result of filter_and_sort_tags(tags)
    latest_tag,         \* result of get_latest_image_tag
    \* ---- chart version resolver (chart_utils.py) ----
    chart_pc,           \* "input" | "helm_done" | "chart_done" | "off"
    chart_index,        \* the repository index as fetched for the chart
    chart_doc,          \* the chart reference of the parsed document
    remote_versions,    \* the filtered and sorted versions, None if not reached
    chart_result,       \* what the check returned or raised
    \* ---- repository tree scanner (file_utils.py) ----
    scan_pc,            \* "input" | "done" | "off"
    repo_tree,          \* the repository's entries: type, name, parent
    kustomize_file_list,
    deployment_file_list,
    chart_file_list,
    listed,             \* the directories get_contents was called for
    \* ---- image detector (image_utils.py, check_for_image_update) ----
    img_pc,             \* "input" | "done" | "off"
    containers,         \* container["image"] of the parsed deployment file
    registry_tags,      \* per container: what get_latest_image_tag returns
    img_result,         \* what check_for_image_update returned
    \* ---- the job: main and the reconciler (main.py, update_handlers.py) ----
    run_pc,             \* "idle" | "handle_all_updates" | "exit0" | "exit1" | "off"
    runs,               \* runs of the job started so far on this day
    env,                \* the required environment variables that are set
    reads,              \* reading requests of the current run
    world,              \* per tracked file: the update its resolver can find
    avail,              \* files whose resolver now offers the new version
    dry_run,            \* DRY_RUN of the current run
    helm_updates,       \* find_helm_updates(kustomize_files)
    image_updates,      \* find_image_updates(deployment_files)
    chart_updates,      \* find_chart_updates(chart_files)
    group,              \* next of the six handle_updates calls, 7 after the last
    branch_exists,      \* the day's branch service_update/YYYY-MM-DD exists
    branch_changes,     \* files whose content on the branch is the bumped one
    main_changes,       \* files whose content on the default branch is bumped
    open_pr,            \* an open pull request from the branch exists
    refs_created,       \* successful create_git_ref calls for the day's branch
    calls,              \* mutating source-control calls of the current run
    notifications,      \* messages the current run sent
    handled,            \* handle_updates calls of the current run
    merged_by_run,      \* files whose bump the run's merges brought to default
    \* ---- one HTTP lookup of a resolver (retry_session.py, main.py) ----
    http_pc,            \* "request" | "returned" | "raised" | "done" | "off"
    http_client,        \* the session the request is sent with
    http_attempt,       \* iteration of RetrySession.request's loop
    http_total,         \* what is left of the adapter's Retry(total=...)
    http_sent,          \* requests put on the wire so far
    http_result,        \* the last outcome on the wire, or the exception
    http_lookup,        \* what the fetching function returned to its caller
    \* ---- one call of send_notification (common/jobs_common.py) ----
    ntf_pc,             \* "called" | "returned" | "raised" | "done" | "off"
    ntf_config,         \* the NTFY_* environment variables that are set
    ntf_site,           \* the place in the job that notifies
    ntf_total,          \* what is left of the adapter's Retry(total=3)
    ntf_sent,           \* POST requests put on the wire
    ntf_out,            \* what send_notification did
    ntf_after,          \* what the caller does next
    \* ---- the three detector loops of a run (file_utils.py, main.py) ----
    fnd_pc,             \* "loop" | "returned" | "raised" | "off"
    fnd_variant,        \* the module whose loops run
    fnd_files,          \* kustomize, deployment and chart files of the scan
    fnd_i,              \* position of the next file
    fnd_docs,           \* the parsed documents after their check
    fnd_checked,        \* positions whose check function was called
    files_needing_updates,  \* positions that yielded a record
    fnd_events,         \* warnings logged and notifications sent
    \* ---- a record's document from safe_load to yaml.dump and back ----
    yml_pc,             \* "parsed" | "mutated" | "dumped" | "reparsed" | "off"
    yml_original,       \* the document yaml.safe_load returned
    yml_target,         \* the field the detector writes
    yml_new,            \* the version or tag the detector writes
    yml_doc,            \* the document object the record carries
    yml_text,           \* what yaml.dump wrote
    yml_reparsed,       \* safe_load of the committed text
    \* ---- one tag listing of a registry (image_utils.py fetch_*_tags) ----
    lst_pc,             \* "fetch" | "fetched" | "latest" | "off"
    lst_registry,       \* the registry get_latest_image_tag chose
    lst_pages,          \* the non-empty pages the registry holds
    lst_fail_at,        \* the request that fails, 0 for none
    page_num,           \* page_num of fetch_ghcr_tags
    lst_tags,           \* tags of fetch_ghcr_tags
    lst_requests,       \* the pages requested, in order
    lst_result,         \* what the fetch function returned
    lst_latest,         \* what get_latest_image_tag returned or raised
    \* ---- detect_registry_and_normalize on one image name ----
    reg_pc,             \* "input" | "done" | "off"
    reg_image,          \* the image name passed in
    reg_result,         \* the (registry, image_name) pair returned
    \* ---- the loop of a check function over a file's entries ----
    ent_pc,             \* "loop" | "returned" | "raised" | "off"
    ent_category,       \* "chart" (dependencies) | "deployment" (containers)
    ent_original,       \* the pinned value of each entry as parsed
    ent_doc,            \* the pinned value of each entry in the document
    ent_remote,         \* what the remote side answers for each entry
    ent_k,              \* position of the next entry
    ent_evaluated,      \* entries whose remote side was asked
    ent_result          \* what the check function returned

polVars == <<pol_pc, original_version, new_version, chart_safe, image_safe>>
tagVars == <<tag_pc, tags, sorted_tags, latest_tag>>
chartVars == <<chart_pc, chart_index, chart_doc, remote_versions, chart_result>>
scanVars == <<scan_pc, repo_tree, kustomize_file_list, deployment_file_list,
              chart_file_list, listed>>
imgVars == <<img_pc, containers, registry_tags, img_result>>
repoVars == <<branch_exists, branch_changes, main_changes, open_pr,
              refs_created>>
runLocal == <<env, reads, dry_run, helm_updates, image_updates, chart_updates,
              group, calls, notifications, handled, merged_by_run>>
runVars == <<run_pc, runs, world, avail, runLocal, repoVars>>
httpVars == <<http_pc, http_client, http_attempt, http_total, http_sent,
              http_result, http_lookup>>
coreVars == <<polVars, tagVars, chartVars, scanVars, imgVars, runVars>>
ntfVars == <<ntf_pc, ntf_config, ntf_site, ntf_total, ntf_sent, ntf_out, ntf_after>>
fndVars == <<fnd_pc, fnd_variant, fnd_files, fnd_i, fnd_docs, fnd_checked, files_needing_updates, fnd_events>>
ymlVars == <<yml_pc, yml_original, yml_target, yml_new, yml_doc, yml_text, yml_reparsed>>
lstVars == <<lst_pc, lst_registry, lst_pages, lst_fail_at, page_num, lst_tags, lst_requests, lst_result, lst_latest>>
regVars == <<reg_pc, reg_image, reg_result>>
entVars == <<ent_pc, ent_category, ent_original, ent_doc, ent_remote, ent_k, ent_evaluated, ent_result>>
auxVars == <<httpVars, ntfVars, fndVars, ymlVars, lstVars, regVars, entVars>>
vars == <<coreVars, auxVars>>

\* The variables each subsystem leaves alone.
notPol == <<tagVars, chartVars, scanVars, imgVars, runVars, auxVars>>
notTag == <<polVars, chartVars, scanVars, imgVars, runVars, auxVars>>
notChart == <<polVars, tagVars, scanVars, imgVars, runVars, auxVars>>
notScan == <<polVars, tagVars, chartVars, imgVars, runVars, auxVars>>
notImg == <<polVars, tagVars, chartVars, scanVars, runVars, auxVars>>
notRun == <<polVars, tagVars, chartVars, scanVars, imgVars, auxVars>>
notHttp == <<coreVars, ntfVars, fndVars, ymlVars, lstVars, regVars, entVars>>
notNtf == <<coreVars, httpVars, fndVars, ymlVars, lstVars, regVars, entVars>>
notFnd == <<coreVars, httpVars, ntfVars, ymlVars, lstVars, regVars, entVars>>
notYml == <<coreVars, httpVars, ntfVars, fndVars, lstVars, regVars, entVars>>
notLst == <<coreVars, httpVars, ntfVars, fndVars, ymlVars, regVars, entVars>>
notReg == <<coreVars, httpVars, ntfVars, fndVars, ymlVars, lstVars, entVars>>
notEnt == <<coreVars, httpVars, ntfVars, fndVars, ymlVars, lstVars, regVars>>

\* Python's None and a present value.
None == [some |-> FALSE, val |-> <<>>]
Some(v) == [some |-> TRUE, val |-> v]
\* Python truthiness of an optional list: None and [] are both falsy.
Truthy(x) == x.some /\ x.val /= <<>>

(***************************************************************************)
(* Characters and Python string primitives                                 *)
(***************************************************************************)
Digits == {"0", "1", "2", "3", "4", "5", "6", "7", "8", "9"}

\* Code-point order of the characters that occur in the modelled strings
\* ('-' 45, '.' 46, '0'..'9' 48..57, lower-case letters 97..122).
CharOrder ==
    <<"-", ".", "0", "1", "2", "3", "4", "5", "6", "7", "8", "9",
      "a", "b", "c", "d", "e", "h", "l", "p", "r", "s", "t", "v">>

Ord(c) == CHOOSE i \in 1..Len(CharOrder) : CharOrder[i] = c

DigitVal(c) == Ord(c) - 3

\* Position of the first occurrence of character sep in s, 0 when absent.
RECURSIVE find(_, _, _)
find(s, sep, i) ==
    IF i > Len(s) THEN 0
    ELSE IF s[i] = sep THEN i
    ELSE find(s, sep, i + 1)

\* str.split(sep) for a one-character separator: always at least one segment,
\* empty segments are kept.
RECURSIVE split(_, _)
split(s, sep) ==
    LET k == find(s, sep, 1)
    IN  IF k = 0 THEN <<s>>
        ELSE <<SubSeq(s, 1, k - 1)>> \o split(SubSeq(s, k + 1, Len(s)), sep)

\* Python's "needle in s" for strings.
contains(s, needle) ==
    \E i \in 1..(Len(s) - Len(needle) + 1) :
        SubSeq(s, i, i + Len(needle) - 1) = needle

(***************************************************************************)
(* filters.py                                                              *)
(***************************************************************************)
chart_filter_first_segment_only_length(o, n) ==
    Len(split(o, ".")[1]) = Len(split(n, ".")[1])

chart_updates_with_minor_or_patch_filter(o, n) ==
    LET split_original_version == split(o, ".")
        split_new_version == split(n, ".")
    IN  IF split_original_version[1] /= split_new_version[1] THEN FALSE
        ELSE TRUE

image_filter_without_length_check(o, n) ==
    split(o, ".")[1] = split(n, ".")[1]

image_updates_with_minor_or_patch_filter(o, n) ==
    LET split_original_tag == split(o, ".")
        split_new_tag == split(n, ".")
    IN  IF Len(split_original_tag) < 2 \/ Len(split_new_tag) < 2 THEN FALSE
        ELSE IF split_original_tag[1] /= split_new_tag[1] THEN FALSE
        ELSE TRUE

(***************************************************************************)
(* Policy filters applied to a pair of version strings                     *)
(***************************************************************************)
V_2_3_1 == <<"2", ".", "3", ".", "1">>
V_2_4_0 == <<"2", ".", "4", ".", "0">>
V_3_0_0 == <<"3", ".", "0", ".", "0">>
V_2 == <<"2">>
V_3 == <<"3">>
V_2_0 == <<"2", ".", "0">>
V_20_1_0 == <<"2", "0", ".", "1", ".", "0">>
V_v2_3_1 == <<"v", "2", ".", "3", ".", "1">>
V_v3_0_0 == <<"v", "3", ".", "0", ".", "0">>
V_latest == <<"l", "a", "t", "e", "s", "t">>

PolicyVersions ==
    {V_2_3_1, V_2_4_0, V_3_0_0, V_2, V_3, V_2_0, V_20_1_0, V_v2_3_1,
     V_v3_0_0, V_latest}

PolicyInit ==
    /\ pol_pc = "input"
    /\ original_version \in PolicyVersions
    /\ new_version \in PolicyVersions
    /\ chart_safe = FALSE
    /\ image_safe = FALSE

PolicyOff ==
    /\ pol_pc = "off"
    /\ original_version = <<>>
    /\ new_version = <<>>
    /\ chart_safe = FALSE
    /\ image_safe = FALSE

ApplyChartFilter ==
    /\ pol_pc = "input"
    /\ chart_safe' =
           chart_updates_with_minor_or_patch_filter(original_version, new_version)
    /\ pol_pc' = "chart_done"
    /\ UNCHANGED <<original_version, new_version, image_safe, notPol>>

ApplyImageFilter ==
    /\ pol_pc = "input"
    /\ image_safe' =
           image_updates_with_minor_or_patch_filter(original_version, new_version)
    /\ pol_pc' = "image_done"
    /\ UNCHANGED <<original_version, new_version, chart_safe, notPol>>

PolicyNext ==
    \/ ApplyChartFilter
    \/ ApplyImageFilter


(***************************************************************************)
(* natsort: natsorted(seq, reverse=True) with the default algorithm        *)
(* (unsigned integers).  The key of a string is the tuple of its maximal   *)
(* digit runs, as integers, and its maximal non-digit runs, as strings,    *)
(* with '' put first when the string starts with a digit.                  *)
(***************************************************************************)
\* End of the maximal run of digits (isDigit) or non-digits that starts at i.
RECURSIVE run_end(_, _, _)
run_end(s, i, isDigit) ==
    IF i < Len(s) /\ ((s[i + 1] \in Digits) = isDigit)
    THEN run_end(s, i + 1, isDigit)
    ELSE i

RECURSIVE to_int(_)
to_int(ds) ==
    IF ds = <<>> THEN 0
    ELSE 10 * to_int(SubSeq(ds, 1, Len(ds) - 1)) + DigitVal(ds[Len(ds)])

TextPart(t) == [num |-> FALSE, n |-> 0, s |-> t]
NumPart(ds) == [num |-> TRUE, n |-> to_int(ds), s |-> <<>>]

\* regex.split on (\d+), empty strings removed, digit runs converted to int.
RECURSIVE natsort_components(_, _)
natsort_components(s, i) ==
    IF i > Len(s) THEN <<>>
    ELSE LET isDigit == s[i] \in Digits
             j == run_end(s, i, isDigit)
             part == SubSeq(s, i, j)
         IN  <<IF isDigit THEN NumPart(part) ELSE TextPart(part)>>
                 \o natsort_components(s, j + 1)

\* sep_inserter: '' before a leading number (two numbers are never adjacent).
natsort_key(s) ==
    LET parts == natsort_components(s, 1)
    IN  IF parts /= <<>> /\ parts[1].num THEN <<TextPart(<<>>)>> \o parts
        ELSE parts

\* Python str comparison: by code point, a proper prefix is smaller.
RECURSIVE str_less(_, _)
str_less(a, b) ==
    IF b = <<>> THEN FALSE
    ELSE IF a = <<>> THEN TRUE
    ELSE IF Ord(a[1]) /= Ord(b[1]) THEN Ord(a[1]) < Ord(b[1])
    ELSE str_less(Tail(a), Tail(b))

part_less(x, y) ==
    IF x.num /\ y.num THEN x.n < y.n ELSE str_less(x.s, y.s)

\* Python tuple comparison of two natsort keys.
RECURSIVE key_less(_, _)
key_less(a, b) ==
    IF b = <<>> THEN FALSE
    ELSE IF a = <<>> THEN TRUE
    ELSE IF a[1] /= b[1] THEN part_less(a[1], b[1])
    ELSE key_less(Tail(a), Tail(b))

\* Stable insertion into a list sorted in descending key order: x goes after
\* every element whose key is not smaller than x's.
RECURSIVE insert_desc(_, _)
insert_desc(sorted, x) ==
    IF sorted = <<>> THEN <<x>>
    ELSE IF key_less(natsort_key(sorted[1]), natsort_key(x))
         THEN <<x>> \o sorted
         ELSE <<sorted[1]>> \o insert_desc(Tail(sorted), x)

RECURSIVE natsorted_reverse(_)
natsorted_reverse(seq) ==
    IF seq = <<>> THEN <<>>
    ELSE insert_desc(natsorted_reverse(SubSeq(seq, 1, Len(seq) - 1)),
                     seq[Len(seq)])

(***************************************************************************)
(* image_utils.py: filter_and_sort_tags and get_latest_image_tag           *)
(***************************************************************************)
\* Position after one or more digits starting at i, 0 when s[i] is no digit.
digits_end(s, i) ==
    IF i <= Len(s) /\ s[i] \in Digits THEN run_end(s, i, TRUE) + 1 ELSE 0

\* Position after "\.\d+" starting at i, 0 when it does not match there.
dot_digits_end(s, i) ==
    IF i > 0 /\ i <= Len(s) /\ s[i] = "." THEN digits_end(s, i + 1) ELSE 0

regex_match_unanchored(tag) ==
    LET i0 == IF tag /= <<>> /\ tag[1] = "v" THEN 2 ELSE 1
        i1 == digits_end(tag, i0)
        i2 == dot_digits_end(tag, i1)
        i3 == dot_digits_end(tag, i2)
    IN  i3 > 0

\* re.compile(r"^v?\d+\.\d+\.\d+(?:\.\d+)?$").match(tag).  (The modelled
\* strings hold no newline, before which '$' would also match.)
regex_match(tag) ==
    LET i0 == IF tag /= <<>> /\ tag[1] = "v" THEN 2 ELSE 1
        i1 == digits_end(tag, i0)
        i2 == dot_digits_end(tag, i1)
        i3 == dot_digits_end(tag, i2)
        i4 == dot_digits_end(tag, i3)
    IN  /\ i3 > 0
        /\ (i3 = Len(tag) + 1 \/ i4 = Len(tag) + 1)

filter_and_sort_tags(tagList) ==
    LET filtered_tags == SelectSeq(tagList, regex_match)
    IN  IF filtered_tags = <<>> THEN None
        ELSE Some(natsorted_reverse(filtered_tags))

\* Lines 138-145 of get_latest_image_tag, after the registry fetch returned
\* fetched (a list, or None when the request failed).
get_latest_image_tag_from(fetched) ==
    IF ~Truthy(fetched) THEN None
    ELSE LET st == filter_and_sort_tags(fetched.val)
         IN  IF ~Truthy(st) THEN None ELSE Some(st.val[1])

T_1_2_3 == <<"1", ".", "2", ".", "3">>
T_1_2_3_rc1 == <<"1", ".", "2", ".", "3", "-", "r", "c", "1">>
T_latest == <<"l", "a", "t", "e", "s", "t">>
T_v2_0_0_1 == <<"v", "2", ".", "0", ".", "0", ".", "1">>
T_abc == <<"a", "b", "c">>
T_1_10_0 == <<"1", ".", "1", "0", ".", "0">>
T_1_9_0 == <<"1", ".", "9", ".", "0">>
T_v1_9_0 == <<"v", "1", ".", "9", ".", "0">>
T_2_0_0 == <<"2", ".", "0", ".", "0">>
T_1_2 == <<"1", ".", "2">>
T_1_2_3_4_5 == <<"1", ".", "2", ".", "3", ".", "4", ".", "5">>
T_1__3 == <<"1", ".", ".", "3">>

TagUniverse ==
    {T_1_2_3, T_1_2_3_rc1, T_latest, T_v2_0_0_1, T_abc, T_1_10_0, T_1_9_0,
     T_v1_9_0, T_2_0_0, T_1_2, T_1_2_3_4_5, T_1__3}

ExampleTags == <<T_1_2_3, T_1_2_3_rc1, T_latest, T_v2_0_0_1, T_abc>>

\* Longest tag listing drawn from TagUniverse.
MaxTags == 3

SeqsUpTo(S, n) == UNION {[1..k -> S] : k \in 0..n}

TagInit ==
    /\ tag_pc = "input"
    /\ tags \in {None} \cup {Some(l) : l \in SeqsUpTo(TagUniverse, MaxTags)}
                       \cup {Some(ExampleTags)}
    /\ sorted_tags = None
    /\ latest_tag = None

TagOff ==
    /\ tag_pc = "off"
    /\ tags = None
    /\ sorted_tags = None
    /\ latest_tag = None

\* filter_and_sort_tags is only called with a list.
FilterAndSortTags ==
    /\ tag_pc = "input"
    /\ tags.some
    /\ sorted_tags' = filter_and_sort_tags(tags.val)
    /\ tag_pc' = "sorted"
    /\ UNCHANGED <<tags, latest_tag, notTag>>

GetLatestImageTag ==
    /\ tag_pc = "input"
    /\ latest_tag' = get_latest_image_tag_from(tags)
    /\ tag_pc' = "latest"
    /\ UNCHANGED <<tags, sorted_tags, notTag>>

TagNext ==
    \/ FilterAndSortTags
    \/ GetLatestImageTag


(***************************************************************************)
(* chart_utils.py: check_for_helm_chart_update and check_for_chart_update   *)
(***************************************************************************)
S_dev == <<"d", "e", "v">>
S_alpha == <<"a", "l", "p", "h", "a">>
S_beta == <<"b", "e", "t", "a">>

is_stable_ignoring_beta(x) ==
    ~contains(x, S_dev) /\ ~contains(x, S_alpha)

\* lambda x: "dev" not in x and "alpha" not in x and "beta" not in x
is_stable(x) ==
    ~contains(x, S_dev) /\ ~contains(x, S_alpha) /\ ~contains(x, S_beta)

\* filter(...) followed by natsorted(remote_versions, reverse=True)
stable_versions_sorted(versions) ==
    natsorted_reverse(SelectSeq(versions, is_stable))

\* The repository index for one chart: the request failed (fetched = FALSE),
\* or the index has no entry for the chart (present = FALSE), or it lists
\* the versions of the chart's entries.
IndexFailed == [fetched |-> FALSE, present |-> FALSE, versions |-> <<>>]
IndexWithout == [fetched |-> TRUE, present |-> FALSE, versions |-> <<>>]
IndexWith(vs) == [fetched |-> TRUE, present |-> TRUE, versions |-> vs]

\* What a check returns or raises: a record with the new version, None, or
\* an exception that is no YAMLError and so leaves the per-file loop.
NoRecord == [kind |-> "none", original_version |-> <<>>, new_version |-> <<>>,
             doc_version |-> <<>>]
Raised(e) == [kind |-> e, original_version |-> <<>>, new_version |-> <<>>,
              doc_version |-> <<>>]
UpdateRecordWithoutMutation(o, n) ==
    [kind |-> "record", original_version |-> o, new_version |-> n,
     doc_version |-> o]

UpdateRecord(o, n) == [kind |-> "record", original_version |-> o,
                       new_version |-> n, doc_version |-> n]

check_for_helm_chart_update_any_namespace(deployed_chart, index) ==
    IF ~index.fetched THEN NoRecord
    ELSE IF ~index.present THEN Raised("KeyError")
    ELSE LET rv == stable_versions_sorted(index.versions)
         IN  IF rv = <<>> THEN Raised("IndexError")
             ELSE IF rv[1] /= deployed_chart.version
                  THEN UpdateRecord(deployed_chart.version, rv[1])
                  ELSE NoRecord

\* check_for_helm_chart_update(kustomize_file), deployed_chart = helmCharts[0]
check_for_helm_chart_update(deployed_chart, index) ==
    IF deployed_chart.namespace = "databases" THEN NoRecord
    ELSE IF ~index.fetched THEN NoRecord
    ELSE IF ~index.present THEN Raised("KeyError")
    ELSE LET rv == stable_versions_sorted(index.versions)
         IN  IF rv = <<>> THEN Raised("IndexError")
             ELSE IF rv[1] /= deployed_chart.version
                  THEN UpdateRecord(deployed_chart.version, rv[1])
                  ELSE NoRecord

\* check_for_chart_update(chart_file) for a document with one dependency:
\* a failed request continues the loop, a missing entry reads as [].
check_for_chart_update(dependency, index) ==
    IF ~index.fetched THEN NoRecord
    ELSE LET rv == stable_versions_sorted(
                       IF index.present THEN index.versions ELSE <<>>)
         IN  IF rv /= <<>> /\ rv[1] /= dependency.version
             THEN UpdateRecord(dependency.version, rv[1])
             ELSE NoRecord

\* The sorted list a check computed, None when it returned before.
helm_remote_versions(deployed_chart, index) ==
    IF deployed_chart.namespace /= "databases" /\ index.fetched /\ index.present
    THEN Some(stable_versions_sorted(index.versions)) ELSE None

chart_remote_versions(index) ==
    IF index.fetched
    THEN Some(stable_versions_sorted(
                  IF index.present THEN index.versions ELSE <<>>))
    ELSE None

C_1_2_0 == <<"1", ".", "2", ".", "0">>
C_1_3_0_beta == <<"1", ".", "3", ".", "0", "-", "b", "e", "t", "a">>
C_1_1_0 == <<"1", ".", "1", ".", "0">>
C_1_10_0 == <<"1", ".", "1", "0", ".", "0">>
C_2_0_0_alpha == <<"2", ".", "0", ".", "0", "-", "a", "l", "p", "h", "a">>
C_3_0_0_dev == <<"3", ".", "0", ".", "0", "-", "d", "e", "v">>

ChartVersionUniverse ==
    {C_1_2_0, C_1_3_0_beta, C_1_1_0, C_1_10_0, C_2_0_0_alpha, C_3_0_0_dev}

ExampleVersions == <<C_1_2_0, C_1_3_0_beta, C_1_1_0>>

\* Longest list of index versions drawn from ChartVersionUniverse.
MaxVersions == 3

ChartInit ==
    /\ chart_pc = "input"
    /\ chart_index \in
           {IndexFailed, IndexWithout}
               \cup {IndexWith(l) : l \in SeqsUpTo(ChartVersionUniverse, MaxVersions)}
    /\ chart_doc \in [namespace : {"databases", "apps"},
                      version : {C_1_2_0, C_1_1_0}]
    /\ remote_versions = None
    /\ chart_result = NoRecord

ChartOff ==
    /\ chart_pc = "off"
    /\ chart_index = IndexFailed
    /\ chart_doc = [namespace |-> "apps", version |-> <<>>]
    /\ remote_versions = None
    /\ chart_result = NoRecord

CheckForHelmChartUpdate ==
    /\ chart_pc = "input"
    /\ chart_result' = check_for_helm_chart_update(chart_doc, chart_index)
    /\ remote_versions' = helm_remote_versions(chart_doc, chart_index)
    /\ chart_doc' =
           IF chart_result'.kind = "record"
           THEN [chart_doc EXCEPT !.version = chart_result'.doc_version]
           ELSE chart_doc
    /\ chart_pc' = "helm_done"
    /\ UNCHANGED <<chart_index, notChart>>

\* The dependency entries of a Chart.yaml carry no namespace.
CheckForChartUpdate ==
    /\ chart_pc = "input"
    /\ chart_doc.namespace = "apps"
    /\ chart_result' = check_for_chart_update(chart_doc, chart_index)
    /\ remote_versions' = chart_remote_versions(chart_index)
    /\ chart_doc' =
           IF chart_result'.kind = "record"
           THEN [chart_doc EXCEPT !.version = chart_result'.doc_version]
           ELSE chart_doc
    /\ chart_pc' = "chart_done"
    /\ UNCHANGED <<chart_index, notChart>>

ChartNext ==
    \/ CheckForHelmChartUpdate
    \/ CheckForChartUpdate

(***************************************************************************)
(* file_utils.py: get_files and find_kustomize_and_deployment_files        *)
(***************************************************************************)
N_kustomization_yaml == <<"k", "u", "s", "t", "o", "m", "i", "z", "a", "t", "i", "o", "n", ".", "y", "a", "m", "l">>
N_deployment_yaml == <<"d", "e", "p", "l", "o", "y", "m", "e", "n", "t", ".", "y", "a", "m", "l">>
N_app_deployment_yaml == <<"a", "p", "p", "-", "d", "e", "p", "l", "o", "y", "m", "e", "n", "t", ".", "y", "a", "m", "l">>
N_Chart_yaml == <<"C", "h", "a", "r", "t", ".", "y", "a", "m", "l">>
N_values_yaml == <<"v", "a", "l", "u", "e", "s", ".", "y", "a", "m", "l">>
N_overlays == <<"o", "v", "e", "r", "l", "a", "y", "s">>
N_base == <<"b", "a", "s", "e">>

\* str.endswith
endswith(s, suffix) ==
    /\ Len(s) >= Len(suffix)
    /\ SubSeq(s, Len(s) - Len(suffix) + 1, Len(s)) = suffix

is_kustomize_file(file) ==
    file.type = "file" /\ file.name = N_kustomization_yaml

is_deployment_file_exact_name(file) ==
    file.type = "file" /\ file.name = N_deployment_yaml

is_deployment_file(file) ==
    file.type = "file" /\ endswith(file.name, N_deployment_yaml)

is_chart_file(file) ==
    file.type = "file" /\ file.name = N_Chart_yaml

should_descend_any_dir(file) ==
    file.type = "dir"

should_descend(file) ==
    file.type = "dir" /\ file.name /= N_overlays

\* argo_repo.get_contents(path): the entries of a directory (0 is the root),
\* as a list.
RECURSIVE children_from(_, _, _)
children_from(tree, dir, i) ==
    IF i > Len(tree) THEN <<>>
    ELSE (IF tree[i].parent = dir THEN <<i>> ELSE <<>>)
             \o children_from(tree, dir, i + 1)

get_contents(tree, dir) == children_from(tree, dir, 1)

EmptyLists == [kustomize |-> <<>>, deployment |-> <<>>, chart |-> <<>>,
               listed |-> <<>>]

\* One iteration of the loop over repo_files, without the recursive call:
\* the three appends.
classify(tree, id, acc) ==
    LET file == tree[id]
    IN  [acc EXCEPT
            !.kustomize = IF is_kustomize_file(file) THEN Append(@, id) ELSE @,
            !.deployment = IF is_deployment_file(file) THEN Append(@, id) ELSE @,
            !.chart = IF is_chart_file(file) THEN Append(@, id) ELSE @]

RECURSIVE find_kustomize_and_deployment_files(_, _, _)
find_kustomize_and_deployment_files(tree, repo_files, acc) ==
    IF repo_files = <<>> THEN acc
    ELSE LET id == repo_files[1]
             classified == classify(tree, id, acc)
             descended ==
                 IF should_descend(tree[id])
                 THEN find_kustomize_and_deployment_files(
                          tree, get_contents(tree, id),
                          [classified EXCEPT !.listed = Append(@, id)])
                 ELSE classified
         IN  find_kustomize_and_deployment_files(tree, Tail(repo_files), descended)

\* get_files(repo, contents) with contents = repo.get_contents("/")
get_files(tree) ==
    find_kustomize_and_deployment_files(tree, get_contents(tree, 0), EmptyLists)

FileNames == {N_kustomization_yaml, N_deployment_yaml, N_app_deployment_yaml,
              N_Chart_yaml, N_values_yaml}
DirNames == {N_overlays, N_base, N_Chart_yaml}

EntryKinds ==
    [type : {"file"}, name : FileNames] \cup [type : {"dir"}, name : DirNames]

\* Largest number of entries (files and directories) of a repository tree.
MaxNodes == 3

\* Entry i lies in the root (0) or in a directory entry listed before it, and
\* no directory holds two entries of the same name.
IsTree(tree) ==
    /\ \A i \in DOMAIN tree :
           /\ tree[i].parent < i
           /\ tree[i].parent > 0 => tree[tree[i].parent].type = "dir"
    /\ \A i, j \in DOMAIN tree :
           (i /= j /\ tree[i].parent = tree[j].parent) =>
               tree[i].name /= tree[j].name

Trees ==
    UNION {{t \in [1..k -> [type : {"file", "dir"},
                            name : FileNames \cup DirNames,
                            parent : 0..(k - 1)]] :
               /\ \A i \in 1..k : [type |-> t[i].type, name |-> t[i].name] \in EntryKinds
               /\ IsTree(t)} : k \in 0..MaxNodes}

ScanInit ==
    /\ scan_pc = "input"
    /\ repo_tree \in Trees
    /\ kustomize_file_list = <<>>
    /\ deployment_file_list = <<>>
    /\ chart_file_list = <<>>
    /\ listed = <<>>

ScanOff ==
    /\ scan_pc = "off"
    /\ repo_tree = <<>>
    /\ kustomize_file_list = <<>>
    /\ deployment_file_list = <<>>
    /\ chart_file_list = <<>>
    /\ listed = <<>>

GetFiles ==
    /\ scan_pc = "input"
    /\ LET r == get_files(repo_tree)
       IN  /\ kustomize_file_list' = r.kustomize
           /\ deployment_file_list' = r.deployment
           /\ chart_file_list' = r.chart
           /\ listed' = r.listed
    /\ scan_pc' = "done"
    /\ UNCHANGED <<repo_tree, notScan>>

ScanNext == GetFiles

(***************************************************************************)
(* image_utils.py: check_for_image_update, parse_image and the registry    *)
(* choice of get_latest_image_tag                                          *)
(***************************************************************************)
S_slash == <<"/">>
S_colon == <<":">>
S_dot == <<".">>
S_docker_io == <<"d", "o", "c", "k", "e", "r", ".", "i", "o">>
S_ghcr_io == <<"g", "h", "c", "r", ".", "i", "o">>
S_quay_io == <<"q", "u", "a", "y", ".", "i", "o">>

\* Index of the last occurrence of character sep in s, 0 when absent.
RECURSIVE rfind(_, _, _)
rfind(s, sep, i) ==
    IF i = 0 THEN 0
    ELSE IF s[i] = sep THEN i
    ELSE rfind(s, sep, i - 1)

\* image.rsplit(":", 1)
rsplit1(s, sep) ==
    LET k == rfind(s, sep, Len(s))
    IN  IF k = 0 THEN <<s>>
        ELSE <<SubSeq(s, 1, k - 1), SubSeq(s, k + 1, Len(s))>>

\* parse_image: the unpacking of a one-element list raises ValueError.
parse_image(image) ==
    LET full == IF contains(image, S_slash) THEN image
                ELSE S_docker_io \o S_slash \o image
        parts == rsplit1(full, ":")
    IN  IF Len(parts) = 2
        THEN [ok |-> TRUE, image_name |-> parts[1], tag |-> parts[2]]
        ELSE [ok |-> FALSE, image_name |-> full, tag |-> <<>>]

\* The registry detect_registry_and_normalize returns.
detect_registry(image_name) ==
    LET parts == split(image_name, "/")
    IN  IF Len(parts) > 1 /\ contains(parts[1], S_dot) THEN parts[1]
        ELSE S_docker_io

supported_registry_any(registry) == TRUE

\* get_latest_image_tag raises ValueError for any other registry.
supported_registry(registry) ==
    registry \in {S_docker_io, S_ghcr_io, S_quay_io}

\* f"{image_name}:{new_tag}"
format_image(image_name, new_tag) == image_name \o S_colon \o new_tag

NoImageRecord(doc) ==
    [kind |-> "none", image_name |-> <<>>, current_tag |-> <<>>,
     new_tag |-> <<>>, deployment_file |-> doc]

ImageRaised(doc) ==
    [kind |-> "ValueError", image_name |-> <<>>, current_tag |-> <<>>,
     new_tag |-> <<>>, deployment_file |-> doc]

RECURSIVE check_for_image_update_skipping_failed(_, _, _)
check_for_image_update_skipping_failed(doc, fetched, k) ==
    IF k > Len(doc) THEN NoImageRecord(doc)
    ELSE LET p == parse_image(doc[k])
             new_tag == get_latest_image_tag_from(fetched[k])
         IN  IF ~p.ok THEN ImageRaised(doc)
             ELSE IF ~supported_registry(detect_registry(p.image_name))
                  THEN ImageRaised(doc)
             ELSE IF new_tag.some /\ new_tag.val /= p.tag
                  THEN [kind |-> "record",
                        image_name |-> p.image_name,
                        current_tag |-> p.tag,
                        new_tag |-> new_tag.val,
                        deployment_file |->
                            [doc EXCEPT ![k] =
                                format_image(p.image_name, new_tag.val)]]
             ELSE check_for_image_update_skipping_failed(doc, fetched, k + 1)

\* check_for_image_update over the containers from position k on; fetched[k]
\* is what the registry request for container k returns.
RECURSIVE check_for_image_update(_, _, _)
check_for_image_update(doc, fetched, k) ==
    IF k > Len(doc) THEN NoImageRecord(doc)
    ELSE LET p == parse_image(doc[k])
             new_tag == get_latest_image_tag_from(fetched[k])
         IN  IF ~p.ok THEN ImageRaised(doc)
             ELSE IF ~supported_registry(detect_registry(p.image_name))
                  THEN ImageRaised(doc)
             ELSE IF ~new_tag.some THEN NoImageRecord(doc)
             ELSE IF new_tag.val /= p.tag
                  THEN [kind |-> "record",
                        image_name |-> p.image_name,
                        current_tag |-> p.tag,
                        new_tag |-> new_tag.val,
                        deployment_file |->
                            [doc EXCEPT ![k] =
                                format_image(p.image_name, new_tag.val)]]
             ELSE check_for_image_update(doc, fetched, k + 1)

T_1_2_0 == <<"1", ".", "2", ".", "0">>
T_1_3_0 == <<"1", ".", "3", ".", "0">>

I_nginx_1_2_0 == <<"n", "g", "i", "n", "x", ":", "1", ".", "2", ".", "0">>
I_nginx_1_3_0 == <<"n", "g", "i", "n", "x", ":", "1", ".", "3", ".", "0">>
I_ghcr_app_1_2_0 ==
    <<"g", "h", "c", "r", ".", "i", "o", "/", "a", "/", "b", ":", "1", ".",
      "2", ".", "0">>
I_gcr_app_1_2_0 ==
    <<"g", "c", "r", ".", "i", "o", "/", "a", ":", "1", ".", "2", ".", "0">>
I_nginx_untagged == <<"n", "g", "i", "n", "x">>

ImageUniverse ==
    {I_nginx_1_2_0, I_nginx_1_3_0, I_ghcr_app_1_2_0, I_gcr_app_1_2_0,
     I_nginx_untagged}

\* What a registry request returns: None after a failed request, or the
\* list of tag names.
FetchedUniverse ==
    {None, Some(<<>>), Some(<<T_latest>>), Some(<<T_1_2_0>>),
     Some(<<T_1_2_0, T_1_3_0>>), Some(<<T_1_3_0, T_latest>>)}

\* Containers of a deployment file.
MaxContainers == 2

ImageInit ==
    /\ img_pc = "input"
    /\ \E n \in 1..MaxContainers :
           /\ containers \in [1..n -> ImageUniverse]
           /\ registry_tags \in [1..n -> FetchedUniverse]
    /\ img_result = NoImageRecord(<<>>)

ImageOff ==
    /\ img_pc = "off"
    /\ containers = <<>>
    /\ registry_tags = <<>>
    /\ img_result = NoImageRecord(<<>>)

\* check_for_image_update(parsed_file): the record carries the document,
\* which is the object the detector mutated.
CheckForImageUpdate ==
    /\ img_pc = "input"
    /\ img_result' = check_for_image_update(containers, registry_tags, 1)
    /\ containers' = img_result'.deployment_file
    /\ img_pc' = "done"
    /\ UNCHANGED <<registry_tags, notImg>>

ImageNext ==
    \/ CheckForImageUpdate

(***************************************************************************)
(* retry_session.py, main.py requests_retry_session and the plain          *)
(* requests.get of chart_utils.py: one HTTP lookup of a resolver.          *)
(* The HTTP library is outside the repository: its adapter retries a       *)
(* request while Retry.total is not used up, on a connection error and on  *)
(* a response whose status is in status_forcelist; used up, it raises      *)
(* RetryError (status) or ConnectionError.                                 *)
(***************************************************************************)
\* retries: int = 3 of RetrySession and of requests_retry_session
Retries == 3

\* The sessions the lookups are sent with: the registry fetches of
\* image_utils.py use RetrySession, those of main.py
\* requests_retry_session(), the chart index fetches requests.get.
HttpClients == {"RetrySession", "requests_retry_session", "requests.get"}

\* What one request on the wire ends with: a response status, a failed
\* name resolution or another connection error.
WireOutcomes == {"200", "404", "500", "502", "503", "504", "dns", "conn"}

\* Retry(total=retries, ...) mounted on the session; requests.get uses the
\* library's default adapter, which does not retry.
retry_total(client) == IF client = "requests.get" THEN 0 ELSE Retries

\* status_forcelist = (500, 502, 504); the default adapter has none.
status_forcelist(client) ==
    IF client = "requests.get" THEN {} ELSE {"500", "502", "504"}

adapter_retries_nothing(client, outcome) == FALSE

\* The outcomes the adapter answers with another request while it can.
adapter_retries(client, outcome) ==
    outcome \in {"dns", "conn"} \cup status_forcelist(client)

dns_loop_unbounded(attempt) == TRUE

\* for attempt in range(self._dns_retries + 1): another iteration follows
\* the failed one.
dns_loop_continues(attempt) == attempt + 1 < Retries + 1

\* Requests on the wire after which a sending loop is cut off.
MaxSent == 20

HttpInit ==
    /\ http_pc = "request"
    /\ http_client \in HttpClients
    /\ http_attempt = 0
    /\ http_total = retry_total(http_client)
    /\ http_sent = 0
    /\ http_result = "none"
    /\ http_lookup = "none"

HttpOff ==
    /\ http_pc = "off"
    /\ http_client = "requests.get"
    /\ http_attempt = 0
    /\ http_total = 0
    /\ http_sent = 0
    /\ http_result = "none"
    /\ http_lookup = "none"

\* One request on the wire inside session.get(url): the adapter's retry
\* accounting, and RetrySession.request's except clause when the adapter
\* gives up with a ConnectionError (cause_is_dns: e.__cause__ is a
\* NameResolutionError, which is the library's doing).
HttpSend ==
    /\ http_pc = "request"
    /\ http_sent < MaxSent
    /\ http_sent' = http_sent + 1
    /\ \E outcome \in WireOutcomes, cause_is_dns \in BOOLEAN :
           IF ~adapter_retries(http_client, outcome)
           THEN /\ http_pc' = "returned"
                /\ http_result' = outcome
                /\ UNCHANGED <<http_attempt, http_total>>
           ELSE IF http_total - 1 >= 0
           THEN /\ http_total' = http_total - 1
                /\ http_result' = outcome
                /\ UNCHANGED <<http_pc, http_attempt>>
           ELSE IF outcome \notin {"dns", "conn"}
           THEN /\ http_pc' = "raised"
                /\ http_result' = "RetryError"
                /\ UNCHANGED <<http_attempt, http_total>>
           ELSE IF /\ http_client = "RetrySession"
                   /\ outcome = "dns" /\ cause_is_dns
                   /\ dns_loop_continues(http_attempt)
           THEN /\ http_attempt' = http_attempt + 1
                /\ http_total' = retry_total(http_client)
                /\ http_result' = outcome
                /\ UNCHANGED http_pc
           ELSE /\ http_pc' = "raised"
                /\ http_result' = "ConnectionError"
                /\ UNCHANGED <<http_attempt, http_total>>
    /\ UNCHANGED <<http_client, http_lookup, notHttp>>

\* The fetching function around the request: raise_for_status, and the
\* except clause for requests.RequestException, which notifies and returns
\* None.
HttpFetchReturns ==
    /\ http_pc \in {"returned", "raised"}
    /\ http_pc' = "done"
    /\ http_lookup' =
           IF http_pc = "returned" /\ http_result = "200" THEN "response"
           ELSE "not-found, notified"
    /\ UNCHANGED <<http_client, http_attempt, http_total, http_sent,
                   http_result, notHttp>>

HttpNext ==
    \/ HttpSend
    \/ HttpFetchReturns

(***************************************************************************)
(* main.py and update_handlers.py: the job's run and the reconciler.       *)
(* The job runs to completion, possibly several times on one day; between  *)
(* runs new versions are released and the open pull request is closed or   *)
(* merged by hand.  The source-control service is GitHub: a file update    *)
(* needs the file's current blob sha on the branch (409 otherwise), and a  *)
(* pull request cannot be created while another one from the same branch   *)
(* to the same base is open (422).                                         *)
(***************************************************************************)
\* What the detector of a tracked file finds once the file's upstream has
\* changed (detect): a record, None (the registry request failed and
\* fetch_*_tags returned None), or an exception that is no YAMLError (the
\* chart is missing from the repository index: KeyError).
\* check_for_helm_chart_update takes release_name from
\* deployed_chart.get("releaseName"), which is None for a chart entry
\* without releaseName (named = FALSE).
UpdateKinds ==
    {[update_type |-> "KustomizeChart", original |-> V_2_3_1, new |-> V_2_4_0,
      named |-> TRUE, detect |-> "record"],
     [update_type |-> "KustomizeChart", original |-> V_2_3_1, new |-> V_3_0_0,
      named |-> TRUE, detect |-> "record"],
     [update_type |-> "KustomizeChart", original |-> V_2_3_1, new |-> V_2_4_0,
      named |-> FALSE, detect |-> "record"],
     [update_type |-> "KustomizeChart", original |-> V_2_3_1, new |-> V_2_3_1,
      named |-> TRUE, detect |-> "raises"],
     [update_type |-> "Image", original |-> T_1_2_0, new |-> T_1_3_0,
      named |-> TRUE, detect |-> "record"],
     [update_type |-> "Image", original |-> V_2_3_1, new |-> V_3_0_0,
      named |-> TRUE, detect |-> "record"],
     [update_type |-> "Image", original |-> V_2_3_1, new |-> V_2_3_1,
      named |-> TRUE, detect |-> "none"],
     [update_type |-> "HelmChart", original |-> V_2_3_1, new |-> V_2_4_0,
      named |-> TRUE, detect |-> "record"],
     [update_type |-> "HelmChart", original |-> V_2_3_1, new |-> V_3_0_0,
      named |-> TRUE, detect |-> "record"]}

\* Tracked files with a pinned version (one update record each at most).
MaxUpd == 2
\* Runs of the job on one day.
MaxRuns == 2

UpdateIds == 1..MaxUpd

\* required_vars of main
RequiredVars == {"GITHUB_PAT", "GHCR_TOKEN"}

missing_vars_github_pat_only(e) == {"GITHUB_PAT"} \ e

\* missing_vars = [var for var in required_vars if not os.getenv(var)]
missing_vars(e) == RequiredVars \ e

\* The filter handle_all_updates applies to a record of its category.
is_minor_or_patch(w, id) ==
    IF w[id].update_type = "Image"
    THEN image_updates_with_minor_or_patch_filter(w[id].original, w[id].new)
    ELSE chart_updates_with_minor_or_patch_filter(w[id].original, w[id].new)

filter_updates_keeping_all(w, updates, minor) == updates

filter_updates_dropping_risky(w, updates, minor) ==
    IF minor THEN SelectSeq(updates, LAMBDA id : is_minor_or_patch(w, id))
    ELSE <<>>

\* filter_updates(updates, filter_func) / filter_updates(updates, not filter_func)
filter_updates(w, updates, minor) ==
    SelectSeq(updates, LAMBDA id : is_minor_or_patch(w, id) = minor)

\* The files of a category in the order of the scan.
RECURSIVE files_of(_, _, _)
files_of(w, type, i) ==
    IF i > MaxUpd THEN <<>>
    ELSE (IF w[i].update_type = type THEN <<i>> ELSE <<>>)
             \o files_of(w, type, i + 1)

\* The order in which main's three detectors go through the files.
detection_order(w) ==
    files_of(w, "KustomizeChart", 1) \o files_of(w, "Image", 1)
        \o files_of(w, "HelmChart", 1)

\* What the check of one file does: "current" when the file holds what its
\* upstream offers.
detect(w, pending, id) == IF id \in pending THEN w[id].detect ELSE "current"

\* The files checked before an exception leaves the detector's loop (the
\* loops catch yaml.YAMLError only), the raising one included.
RECURSIVE checked_files(_, _, _)
checked_files(w, pending, order) ==
    IF order = <<>> THEN <<>>
    ELSE IF detect(w, pending, order[1]) = "raises" THEN <<order[1]>>
    ELSE <<order[1]>> \o checked_files(w, pending, Tail(order))

detection_never_reaching_main(w, pending) == FALSE

\* An exception of a check, which no detector loop catches, reaches main.
detection_raises(w, pending) ==
    \E id \in UpdateIds : detect(w, pending, id) = "raises"

RECURSIVE find_updates_for_every_file(_, _, _, _)
find_updates_for_every_file(w, pending, type, i) ==
    IF i > MaxUpd THEN <<>>
    ELSE (IF w[i].update_type = type THEN <<i>> ELSE <<>>)
             \o find_updates_for_every_file(w, pending, type, i + 1)

RECURSIVE find_updates_two_records_per_file(_, _, _, _)
find_updates_two_records_per_file(w, pending, type, i) ==
    IF i > MaxUpd THEN <<>>
    ELSE (IF w[i].update_type = type /\ detect(w, pending, i) = "record"
          THEN <<i, i>> ELSE <<>>)
             \o find_updates_two_records_per_file(w, pending, type, i + 1)

\* The records a detector returns, in the order of the scanned files: the
\* files of the category whose bump is offered and not yet on the default
\* branch.
RECURSIVE find_updates(_, _, _, _)
find_updates(w, pending, type, i) ==
    IF i > MaxUpd THEN <<>>
    ELSE (IF w[i].update_type = type /\ detect(w, pending, i) = "record"
          THEN <<i>> ELSE <<>>)
             \o find_updates(w, pending, type, i + 1)

\* The six handle_updates calls of handle_all_updates, in order.
GroupType(g) ==
    IF g \in {1, 2} THEN "KustomizeChart"
    ELSE IF g \in {3, 4} THEN "Image" ELSE "HelmChart"

GroupIsMajor_risky_first(g) == g \in {1, 3, 5}

GroupIsMajor(g) == g \in {2, 4, 6}

GroupUpdates(g) ==
    LET updates == IF g \in {1, 2} THEN helm_updates
                   ELSE IF g \in {3, 4} THEN image_updates ELSE chart_updates
    IN  filter_updates(world, updates, ~GroupIsMajor(g))

create_branch_always_creating(exists) == [created |-> TRUE]

\* create_branch_for_updates: get_git_ref of the day's branch, and
\* create_git_ref from the default branch's sha when the lookup raises.
create_branch_for_updates(exists) == [created |-> ~exists]

RECURSIVE commit_updates_ignoring_sha(_, _)
commit_updates_ignoring_sha(files, bc) ==
    IF files = <<>> THEN [ok |-> TRUE, bc |-> bc, calls |-> <<>>, written |-> <<>>]
    ELSE LET rest == commit_updates_ignoring_sha(Tail(files), bc \cup {files[1]})
         IN  [rest EXCEPT !.calls = <<"update_file">> \o @,
                          !.written = <<files[1]>> \o @]

\* commit_updates_to_branch: update_file per record with the sha of the scan;
\* the first file whose blob on the branch is another one raises
\* GithubException and ends the loop.  written lists the files whose
\* document was put on the branch.
RECURSIVE commit_updates_to_branch(_, _)
commit_updates_to_branch(files, bc) ==
    IF files = <<>> THEN [ok |-> TRUE, bc |-> bc, calls |-> <<>>, written |-> <<>>]
    ELSE IF files[1] \in bc
         THEN [ok |-> FALSE, bc |-> bc, calls |-> <<>>, written |-> <<>>]
    ELSE LET rest == commit_updates_to_branch(Tail(files), bc \cup {files[1]})
         IN  [rest EXCEPT !.calls = <<"update_file">> \o @,
                          !.written = <<files[1]>> \o @]

handle_updates_calls_pull_first(created, commit_calls, pull_ok, merged) ==
    (IF created THEN <<"create_git_ref">> ELSE <<>>)
        \o (IF pull_ok THEN <<"create_pull">> ELSE <<>>)
        \o commit_calls
        \o (IF merged THEN <<"merge">> ELSE <<>>)

\* The mutating calls of one handle_updates, in the order of its statements:
\* create_branch_for_updates, commit_updates_to_branch,
\* create_pull_request_for_updates, pr.merge().
handle_updates_calls(created, commit_calls, pull_ok, merged) ==
    (IF created THEN <<"create_git_ref">> ELSE <<>>)
        \o commit_calls
        \o (IF pull_ok THEN <<"create_pull">> ELSE <<>>)
        \o (IF merged THEN <<"merge">> ELSE <<>>)

\* ', '.join(names) raises TypeError when a name is None.
names_join_ok(w, objs) == \A i \in DOMAIN objs : w[objs[i]].named

RunInit ==
    /\ run_pc = "idle"
    /\ runs = 0
    /\ world \in [UpdateIds -> UpdateKinds]
    /\ avail \in SUBSET UpdateIds
    /\ env = RequiredVars
    /\ reads = <<>>
    /\ dry_run = FALSE
    /\ helm_updates = <<>>
    /\ image_updates = <<>>
    /\ chart_updates = <<>>
    /\ group = 1
    /\ branch_exists = FALSE
    /\ branch_changes = {}
    /\ main_changes = {}
    /\ open_pr = FALSE
    /\ refs_created = 0
    /\ calls = <<>>
    /\ notifications = <<>>
    /\ handled = <<>>
    /\ merged_by_run = {}

RunOff ==
    /\ run_pc = "off"
    /\ runs = 0
    /\ world = <<>>
    /\ avail = {}
    /\ env = RequiredVars
    /\ reads = <<>>
    /\ dry_run = FALSE
    /\ helm_updates = <<>>
    /\ image_updates = <<>>
    /\ chart_updates = <<>>
    /\ group = 1
    /\ branch_exists = FALSE
    /\ branch_changes = {}
    /\ main_changes = {}
    /\ open_pr = FALSE
    /\ refs_created = 0
    /\ calls = <<>>
    /\ notifications = <<>>
    /\ handled = <<>>
    /\ merged_by_run = {}

BetweenRuns == run_pc \in {"idle", "exit0", "exit1"}

\* main() up to the call of handle_all_updates: the check of the required
\* environment variables, the scan and the three detectors.  An exception
\* of a detector leaves through main's except clause before
\* handle_all_updates is called.
Main ==
    /\ BetweenRuns
    /\ runs < MaxRuns
    /\ runs' = runs + 1
    /\ \E e \in SUBSET RequiredVars, dr \in BOOLEAN :
           LET pending == avail \ main_changes
               env_ok == missing_vars(e) = {}
               raised == detection_raises(world, pending)
               checked == checked_files(world, pending, detection_order(world))
               h == find_updates(world, pending, "KustomizeChart", 1)
               i == find_updates(world, pending, "Image", 1)
               c == find_updates(world, pending, "HelmChart", 1)
               detected == env_ok /\ ~raised
           IN  /\ env' = e
               /\ dry_run' = dr
               /\ reads' =
                      IF env_ok
                      THEN <<"get_repo", "get_contents">>
                               \o [k \in 1..Len(checked) |-> "resolve"]
                      ELSE <<>>
               /\ helm_updates' = IF detected THEN h ELSE <<>>
               /\ image_updates' = IF detected THEN i ELSE <<>>
               /\ chart_updates' = IF detected THEN c ELSE <<>>
               /\ notifications' =
                      IF ~env_ok
                      THEN <<[kind |-> "terminating", update_type |-> "",
                              is_major |-> FALSE, names |-> <<>>]>>
                      ELSE IF raised
                      THEN <<[kind |-> "error", update_type |-> "",
                              is_major |-> FALSE, names |-> <<>>]>>
                      ELSE <<>>
               /\ run_pc' =
                      IF ~detected THEN "exit1"
                      ELSE IF h = <<>> /\ i = <<>> /\ c = <<>> THEN "exit0"
                      ELSE "handle_all_updates"
    /\ group' = 1
    /\ calls' = <<>>
    /\ handled' = <<>>
    /\ merged_by_run' = {}
    /\ UNCHANGED <<world, avail, repoVars, notRun>>

\* One of the six blocks of handle_all_updates: the filter and, when the
\* filtered list is not empty, handle_updates; an exception leaves through
\* main's except clause, which notifies and exits with 1.
HandleUpdates ==
    /\ run_pc = "handle_all_updates"
    /\ group <= 6
    /\ group' = group + 1
    /\ LET update_objects == GroupUpdates(group)
           is_major == GroupIsMajor(group)
           live == ~dry_run
           created == live /\ create_branch_for_updates(branch_exists).created
           base == IF created THEN main_changes ELSE branch_changes
           c == IF live THEN commit_updates_to_branch(update_objects, base)
                ELSE [ok |-> TRUE, bc |-> branch_changes, calls |-> <<>>,
                      written |-> <<>>]
           pull_rejected == live /\ c.ok /\ open_pr
           pull_ok == live /\ c.ok /\ ~open_pr
           merged == pull_ok /\ ~is_major
           group_calls == handle_updates_calls(created, c.calls, pull_ok, merged)
           notified ==
               /\ dry_run \/ pull_ok
               /\ GroupType(group) = "KustomizeChart" =>
                      names_join_ok(world, update_objects)
       IN  IF update_objects = <<>>
           THEN UNCHANGED <<run_pc, repoVars, calls, notifications, handled,
                            merged_by_run>>
           ELSE /\ branch_exists' = (branch_exists \/ live)
                /\ refs_created' = refs_created + (IF created THEN 1 ELSE 0)
                /\ branch_changes' = IF live THEN c.bc ELSE branch_changes
                /\ main_changes' =
                       IF merged THEN main_changes \cup c.bc ELSE main_changes
                /\ open_pr' = (open_pr \/ (pull_ok /\ is_major))
                /\ calls' = calls \o group_calls
                /\ merged_by_run' =
                       IF merged THEN merged_by_run \cup (c.bc \ main_changes)
                       ELSE merged_by_run
                /\ notifications' =
                       Append(notifications,
                              IF notified
                              THEN [kind |-> "group",
                                    update_type |-> GroupType(group),
                                    is_major |-> is_major,
                                    names |-> update_objects]
                              ELSE [kind |-> "error", update_type |-> "",
                                    is_major |-> FALSE, names |-> <<>>])
                /\ handled' =
                       Append(handled,
                              [group |-> group,
                               objects |-> update_objects,
                               live |-> live,
                               stale |-> IF live
                                         THEN {update_objects[k] :
                                                  k \in DOMAIN update_objects}
                                                  \cap base
                                         ELSE {},
                               written |-> c.written,
                               calls |-> group_calls,
                               pull_rejected |-> pull_rejected,
                               pr |-> IF merged THEN "merged"
                                      ELSE IF pull_ok THEN "open" ELSE "none",
                               notified |-> notified])
                /\ run_pc' = IF notified THEN run_pc ELSE "exit1"
    /\ UNCHANGED <<runs, world, avail, env, reads, dry_run, helm_updates,
                   image_updates, chart_updates, notRun>>

\* handle_all_updates returned: main logs and returns.
MainReturn ==
    /\ run_pc = "handle_all_updates"
    /\ group = 7
    /\ run_pc' = "exit0"
    /\ UNCHANGED <<runs, world, avail, runLocal, repoVars, notRun>>

\* A chart repository or registry publishes the new version for a file.
NewRelease ==
    /\ BetweenRuns
    /\ \E id \in UpdateIds \ avail : avail' = avail \cup {id}
    /\ UNCHANGED <<run_pc, runs, world, runLocal, repoVars, notRun>>

\* Manual action on the pull request left open: closed without merging.
ClosePullRequest ==
    /\ BetweenRuns
    /\ open_pr
    /\ open_pr' = FALSE
    /\ UNCHANGED <<run_pc, runs, world, avail, runLocal, branch_exists,
                   branch_changes, main_changes, refs_created, notRun>>

\* Manual action on the pull request left open: merged.
MergePullRequestByHand ==
    /\ BetweenRuns
    /\ open_pr
    /\ open_pr' = FALSE
    /\ main_changes' = main_changes \cup branch_changes
    /\ UNCHANGED <<run_pc, runs, world, avail, runLocal, branch_exists,
                   branch_changes, refs_created, notRun>>

RunNext ==
    \/ Main
    \/ HandleUpdates
    \/ MainReturn
    \/ NewRelease
    \/ ClosePullRequest
    \/ MergePullRequestByHand

(***************************************************************************)
(* common/jobs_common.py: send_notification, and what its callers in       *)
(* main.py do after it                                                     *)
(***************************************************************************)
NtfyVars == {"NTFY_BASE_URL", "NTFY_TOPIC", "NTFY_API_KEY"}

\* Retry(total=3, ...) of send_notification
NtfyRetries == 3

\* status_forcelist of send_notification
NtfyForcelist == {"500", "502", "503", "504", "522"}

\* What one POST ends with: a response status, or an exception of the
\* transport (a connection error is retried by the adapter, any other
\* exception leaves session.post at once).
PostOutcomes == {"200", "403", "500", "503", "522", "conn", "exception"}

\* response.ok
response_ok(status) == status = "200"

\* The places that call send_notification and what follows the call there.
NotifySites == {"missing variables", "unexpected error", "group handled",
                "lookup failed", "yaml parsing failed"}

after_notification(site) ==
    IF site \in {"missing variables", "unexpected error"} THEN "sys.exit(1)"
    ELSE IF site = "group handled" THEN "handle_updates returns"
    ELSE IF site = "lookup failed" THEN "return None"
    ELSE "next file of the loop"

send_notification_unguarded(e) ==
    [pc |-> "raised", out |-> e]

\* except Exception as e: print(...)
send_notification_except(e) ==
    [pc |-> "returned", out |-> "printed failure"]

NotifyInit ==
    /\ ntf_pc = "called"
    /\ ntf_config \in SUBSET NtfyVars
    /\ ntf_site \in NotifySites
    /\ ntf_total = NtfyRetries
    /\ ntf_sent = 0
    /\ ntf_out = "none"
    /\ ntf_after = "none"

NotifyOff ==
    /\ ntf_pc = "off"
    /\ ntf_config = {}
    /\ ntf_site = "group handled"
    /\ ntf_total = 0
    /\ ntf_sent = 0
    /\ ntf_out = "none"
    /\ ntf_after = "none"

\* if not all([base_url, topic, api_key]): print and return
NotifyWithoutConfiguration ==
    /\ ntf_pc = "called"
    /\ ntf_config /= NtfyVars
    /\ ntf_pc' = "returned"
    /\ ntf_out' = "printed missing variables"
    /\ UNCHANGED <<ntf_config, ntf_site, ntf_total, ntf_sent, ntf_after,
                   notNtf>>

\* One POST on the wire inside session.post, the adapter's retries, the
\* check of response.ok and the except clause.
NotifyPost ==
    /\ ntf_pc = "called"
    /\ ntf_config = NtfyVars
    /\ ntf_sent' = ntf_sent + 1
    /\ \E outcome \in PostOutcomes :
           IF outcome \in NtfyForcelist \cup {"conn"}
           THEN IF ntf_total - 1 >= 0
                THEN /\ ntf_total' = ntf_total - 1
                     /\ UNCHANGED <<ntf_pc, ntf_out>>
                ELSE LET h == send_notification_except(
                                  IF outcome = "conn" THEN "ConnectionError"
                                  ELSE "RetryError")
                     IN  /\ ntf_pc' = h.pc
                         /\ ntf_out' = h.out
                         /\ UNCHANGED ntf_total
           ELSE IF outcome = "exception"
           THEN LET h == send_notification_except("Exception")
                IN  /\ ntf_pc' = h.pc
                    /\ ntf_out' = h.out
                    /\ UNCHANGED ntf_total
           ELSE /\ ntf_pc' = "returned"
                /\ ntf_out' = IF response_ok(outcome) THEN "delivered"
                              ELSE "printed failed status"
                /\ UNCHANGED ntf_total
    /\ UNCHANGED <<ntf_config, ntf_site, ntf_after, notNtf>>

\* The statement after the call of send_notification; an exception leaving
\* send_notification would take the caller's place instead.
NotifyCallerResumes ==
    /\ ntf_pc \in {"returned", "raised"}
    /\ ntf_pc' = "done"
    /\ ntf_after' = IF ntf_pc = "raised" THEN "exception propagates"
                    ELSE after_notification(ntf_site)
    /\ UNCHANGED <<ntf_config, ntf_site, ntf_total, ntf_sent, ntf_out,
                   notNtf>>

NotifyNext ==
    \/ NotifyWithoutConfiguration
    \/ NotifyPost
    \/ NotifyCallerResumes

(***************************************************************************)
(* file_utils.py and main.py: the loops of                                 *)
(* kustomize_files_find_helm_charts_with_updates,                          *)
(* deployment_files_find_image_updates and chart_files_find_chart_updates, *)
(* which main calls one after the other                                    *)
(***************************************************************************)
\* A scanned file: its category, whether yaml.safe_load raises YAMLError on
\* it, its document (the containers of a deployment, the pinned chart of a
\* kustomization or Chart.yaml) and what the remote side answers.
ScannedFile(category, parse, cs, fetched, chart, index) ==
    [category |-> category, parse |-> parse, containers |-> cs,
     fetched |-> fetched, chart |-> chart, index |-> index]

NoChart == [namespace |-> "apps", version |-> <<>>]

DeploymentFile(cs, fetched) ==
    ScannedFile("deployment", "ok", cs, fetched, NoChart, IndexFailed)

ChartFileOf(category, version, index) ==
    ScannedFile(category, "ok", <<>>, <<>>,
                [namespace |-> "apps", version |-> version], index)

Malformed(category) ==
    ScannedFile(category, "YAMLError", <<>>, <<>>, NoChart, IndexFailed)

FileUniverse ==
    {DeploymentFile(<<I_nginx_1_2_0>>, <<None>>),
     DeploymentFile(<<I_nginx_1_2_0>>, <<Some(<<>>)>>),
     DeploymentFile(<<I_nginx_1_2_0>>, <<Some(<<T_latest>>)>>),
     DeploymentFile(<<I_nginx_1_2_0>>, <<Some(<<T_1_2_0>>)>>),
     DeploymentFile(<<I_nginx_1_2_0>>, <<Some(<<T_1_2_0, T_1_3_0>>)>>),
     DeploymentFile(<<I_gcr_app_1_2_0>>, <<Some(<<T_1_3_0>>)>>),
     Malformed("deployment"),
     ChartFileOf("kustomize", C_1_2_0, IndexWith(<<C_1_2_0, C_1_10_0>>)),
     ChartFileOf("kustomize", C_1_2_0, IndexFailed),
     ChartFileOf("kustomize", C_1_2_0, IndexWithout),
     Malformed("kustomize"),
     ChartFileOf("chart", C_1_2_0, IndexWith(<<C_1_10_0>>)),
     Malformed("chart")}

\* main: find_helm_updates, find_image_updates, find_chart_updates
CategoryOrder(category) ==
    IF category = "kustomize" THEN 1
    ELSE IF category = "deployment" THEN 2 ELSE 3

\* Files of one scan.
MaxFiles == 3

FileLists ==
    {l \in SeqsUpTo(FileUniverse, MaxFiles) :
        /\ l /= <<>>
        /\ \A j, k \in DOMAIN l :
               j < k => CategoryOrder(l[j].category) <= CategoryOrder(l[k].category)}

\* The check function of the file's loop: "record", "none" (None returned)
\* or the exception it raises.
check_of(file) ==
    IF file.category = "deployment"
    THEN check_for_image_update(file.containers, file.fetched, 1).kind
    ELSE IF file.category = "kustomize"
    THEN check_for_helm_chart_update(file.chart, file.index).kind
    ELSE check_for_chart_update(file.chart, file.index).kind

\* The document after the check, which mutates it when it returns a record.
checked_document(file) ==
    IF file.category = "deployment"
    THEN [containers |->
              check_for_image_update(file.containers, file.fetched, 1).deployment_file,
          version |-> <<>>]
    ELSE LET r == IF file.category = "kustomize"
                  THEN check_for_helm_chart_update(file.chart, file.index)
                  ELSE check_for_chart_update(file.chart, file.index)
         IN  [containers |-> <<>>,
              version |-> IF r.kind = "record" THEN r.doc_version
                          ELSE file.chart.version]

parsed_document(file) ==
    [containers |-> file.containers, version |-> file.chart.version]

\* fetch_*_tags and the chart checks log and notify a failed request.
lookup_events(file, k) ==
    IF \/ file.category = "deployment" /\ file.fetched[1] = None
       \/ file.category /= "deployment" /\ ~file.index.fetched
    THEN <<[event |-> "lookup failed notification", file |-> k]>>
    ELSE <<>>

\* except yaml.YAMLError: main.py logs a warning and notifies,
\* file_utils.py passes.
yaml_error_events(variant, k) ==
    IF variant = "main.py"
    THEN <<[event |-> "warning", file |-> k],
           [event |-> "yaml notification", file |-> k]>>
    ELSE <<>>

loop_after_aborting_on_none(outcome) ==
    IF outcome \in {"record", "YAMLError"} THEN "loop" ELSE "raised"

\* Only yaml.YAMLError is caught in the loops: any other exception of the
\* check leaves the loop and the function.
loop_after(outcome) ==
    IF outcome \in {"record", "none", "YAMLError"} THEN "loop" ELSE "raised"

FindInit ==
    /\ fnd_pc = "loop"
    /\ fnd_variant \in {"main.py", "file_utils.py"}
    /\ fnd_files \in FileLists
    /\ fnd_i = 1
    /\ fnd_docs = <<>>
    /\ fnd_checked = <<>>
    /\ files_needing_updates = <<>>
    /\ fnd_events = <<>>

FindOff ==
    /\ fnd_pc = "off"
    /\ fnd_variant = "main.py"
    /\ fnd_files = <<>>
    /\ fnd_i = 1
    /\ fnd_docs = <<>>
    /\ fnd_checked = <<>>
    /\ files_needing_updates = <<>>
    /\ fnd_events = <<>>

\* One iteration of a loop: safe_load, the check, the append of the record.
FindUpdatesInFile ==
    /\ fnd_pc = "loop"
    /\ fnd_i <= Len(fnd_files)
    /\ LET file == fnd_files[fnd_i]
           outcome == IF file.parse = "YAMLError" THEN "YAMLError"
                      ELSE check_of(file)
       IN  /\ fnd_pc' = loop_after(outcome)
           /\ fnd_docs' =
                  Append(fnd_docs,
                         IF outcome = "YAMLError" THEN parsed_document(file)
                         ELSE checked_document(file))
           /\ fnd_checked' =
                  IF outcome = "YAMLError" THEN fnd_checked
                  ELSE Append(fnd_checked, fnd_i)
           /\ files_needing_updates' =
                  IF outcome = "record"
                  THEN Append(files_needing_updates, fnd_i)
                  ELSE files_needing_updates
           /\ fnd_events' =
                  fnd_events \o
                      (IF outcome = "YAMLError"
                       THEN yaml_error_events(fnd_variant, fnd_i)
                       ELSE lookup_events(file, fnd_i))
    /\ fnd_i' = fnd_i + 1
    /\ UNCHANGED <<fnd_variant, fnd_files, notFnd>>

\* return files_needing_updates of the last loop.
FindReturn ==
    /\ fnd_pc = "loop"
    /\ fnd_i > Len(fnd_files)
    /\ fnd_pc' = "returned"
    /\ UNCHANGED <<fnd_variant, fnd_files, fnd_i, fnd_docs, fnd_checked,
                   files_needing_updates, fnd_events, notFnd>>

FindNext ==
    \/ FindUpdatesInFile
    \/ FindReturn

(***************************************************************************)
(* update_handlers.py commit_updates_to_branch (yaml.dump) and the         *)
(* safe_load of the loops in file_utils.py: the scalars of a document.     *)
(* The YAML library is outside the repository: it writes a string plain    *)
(* when the plain text resolves to a string and quoted otherwise, and it   *)
(* reads a plain scalar as the type its text resolves to.                  *)
(***************************************************************************)
Y_true == <<"t", "r", "u", "e">>
Y_null == <<"n", "u", "l", "l">>
Y_nginx == <<"n", "g", "i", "n", "x">>
Y_12 == <<"1", "2">>

IsDigits(text) == text /= <<>> /\ \A k \in DOMAIN text : text[k] \in Digits

\* The implicit resolver: the type a plain scalar is read as.
yaml_resolve(text) ==
    IF text = <<>> \/ text = Y_null \/ text = <<"~">> THEN "null"
    ELSE IF text = Y_true THEN "bool"
    ELSE IF IsDigits(text) THEN "int"
    ELSE IF \E d \in DOMAIN text :
                /\ text[d] = "."
                /\ IsDigits(SubSeq(text, 1, d - 1))
                /\ \A k \in (d + 1)..Len(text) : text[k] \in Digits
         THEN "float"
    ELSE "str"

Scalar(type, text) == [type |-> type, text |-> text]
Str(text) == Scalar("str", text)

represent_always_plain(value) == [style |-> "plain", text |-> value.text]

\* yaml.dump of a scalar value.
represent(value) ==
    IF value.type = "str" /\ yaml_resolve(value.text) /= "str"
    THEN [style |-> "quoted", text |-> value.text]
    ELSE [style |-> "plain", text |-> value.text]

\* yaml.safe_load of a scalar.
construct(token) ==
    IF token.style = "quoted" THEN Str(token.text)
    ELSE Scalar(yaml_resolve(token.text), token.text)

yaml_dump(doc) == [k \in DOMAIN doc |-> represent(doc[k])]
yaml_safe_load(text) == [k \in DOMAIN text |-> construct(text[k])]

\* The values safe_load can have returned for a field.
ScalarUniverse ==
    {Str(Y_nginx), Str(T_1_2), Str(Y_12), Str(Y_true), Str(<<>>),
     Scalar("int", Y_12), Scalar("float", T_1_2), Scalar("null", Y_null)}

\* The versions and tags a detector can write: strings from an index or a
\* registry listing.
NewVersionUniverse == {T_1_3_0, T_1_2, V_2}

\* Fields of a document besides the targeted one.
MaxFields == 2

YamlInit ==
    /\ yml_pc = "parsed"
    /\ \E n \in 2..(MaxFields + 1) :
           /\ yml_original \in [1..n -> ScalarUniverse]
           /\ yml_target \in 1..n
    /\ yml_new \in NewVersionUniverse
    /\ yml_doc = yml_original
    /\ yml_text = <<>>
    /\ yml_reparsed = <<>>

YamlOff ==
    /\ yml_pc = "off"
    /\ yml_original = <<>>
    /\ yml_target = 1
    /\ yml_new = <<>>
    /\ yml_doc = <<>>
    /\ yml_text = <<>>
    /\ yml_reparsed = <<>>

\* deployed_chart["version"] = remote_versions[0], and the like of the
\* other detectors: the record carries the mutated document.
DetectorMutates ==
    /\ yml_pc = "parsed"
    /\ yml_doc' = [yml_doc EXCEPT ![yml_target] = Str(yml_new)]
    /\ yml_pc' = "mutated"
    /\ UNCHANGED <<yml_original, yml_target, yml_new, yml_text, yml_reparsed,
                   notYml>>

\* yaml.dump(file["kustomize_file"], file_content_stream)
YamlDump ==
    /\ yml_pc = "mutated"
    /\ yml_text' = yaml_dump(yml_doc)
    /\ yml_pc' = "dumped"
    /\ UNCHANGED <<yml_original, yml_target, yml_new, yml_doc, yml_reparsed,
                   notYml>>

\* yaml.safe_load of the committed file by the next scan.
YamlSafeLoad ==
    /\ yml_pc = "dumped"
    /\ yml_reparsed' = yaml_safe_load(yml_text)
    /\ yml_pc' = "reparsed"
    /\ UNCHANGED <<yml_original, yml_target, yml_new, yml_doc, yml_text,
                   notYml>>

YamlNext ==
    \/ DetectorMutates
    \/ YamlDump
    \/ YamlSafeLoad

(***************************************************************************)
(* image_utils.py: fetch_docker_tags, fetch_ghcr_tags, fetch_quay_tags and *)
(* get_latest_image_tag on what they return                                *)
(***************************************************************************)
\* A page of a registry's answer: its entries, each with the tag names it
\* carries (one name for a Docker or Quay tag entry, any number for a GHCR
\* package version).
PageUniverse ==
    {<<<<T_1_2_0>>>>,
     <<<<T_1_3_0>>, <<T_latest>>>>,
     <<<<T_latest>>>>,
     <<<<>>, <<T_1_2_0, T_latest>>>>}

\* Non-empty pages a registry holds for one image.
MaxPages == 3

RECURSIVE Flatten(_)
Flatten(lists) ==
    IF lists = <<>> THEN <<>> ELSE lists[1] \o Flatten(Tail(lists))

\* An element of the list a fetch function returns: a tag name, or the
\* entry object of the response.
TagName(t) == [kind |-> "str", name |-> t]
TagEntry(t) == [kind |-> "dict", name |-> t]

\* tags.extend(package["metadata"]["container"]["tags"]) over a page
ghcr_page_tags(page) ==
    LET names == Flatten(page) IN [k \in DOMAIN names |-> TagName(names[k])]

\* [tag["name"] for tag in response.json().get("results", [])]
docker_tags(page) ==
    LET names == Flatten(page) IN [k \in DOMAIN names |-> TagName(names[k])]

\* response.json().get("tags", [])
quay_tags(page) ==
    LET names == Flatten(page) IN [k \in DOMAIN names |-> TagEntry(names[k])]

\* The page a request for page p is answered with.
page_at(pages, p) == IF p <= Len(pages) THEN pages[p] ELSE <<>>

TypeError == [some |-> FALSE, val |-> <<"TypeError">>]

\* get_latest_image_tag after the fetch: None for None or an empty list;
\* regex.match raises TypeError on an element that is not a string.
get_latest_image_tag_of(fetched) ==
    IF ~fetched.some \/ fetched.val = <<>> THEN None
    ELSE IF fetched.val[1].kind /= "str" THEN TypeError
    ELSE get_latest_image_tag_from(
             Some([k \in DOMAIN fetched.val |-> fetched.val[k].name]))

ListingInit ==
    /\ lst_pc = "fetch"
    /\ lst_registry \in {S_docker_io, S_ghcr_io, S_quay_io}
    /\ lst_pages \in SeqsUpTo(PageUniverse, MaxPages)
    /\ lst_fail_at \in 0..(MaxPages + 1)
    /\ lst_registry /= S_ghcr_io => (Len(lst_pages) <= 1 /\ lst_fail_at <= 1)
    /\ page_num = 1
    /\ lst_tags = <<>>
    /\ lst_requests = <<>>
    /\ lst_result = None
    /\ lst_latest = None

ListingOff ==
    /\ lst_pc = "off"
    /\ lst_registry = S_docker_io
    /\ lst_pages = <<>>
    /\ lst_fail_at = 0
    /\ page_num = 1
    /\ lst_tags = <<>>
    /\ lst_requests = <<>>
    /\ lst_result = None
    /\ lst_latest = None

ghcr_page_keeping_partial(failed, page, acc) ==
    IF failed THEN [pc |-> "fetched", result |-> Some(acc), tags |-> acc,
                    next |-> 0]
    ELSE IF page = <<>>
    THEN [pc |-> "fetched", result |-> Some(acc), tags |-> acc, next |-> 0]
    ELSE [pc |-> "fetch", result |-> None, tags |-> acc \o ghcr_page_tags(page),
          next |-> 1]

\* One iteration of fetch_ghcr_tags' while True: the request of a page
\* (RequestException: notify, return None), break on an empty page,
\* otherwise extend tags and go to the next page.
ghcr_page(failed, page, acc) ==
    IF failed THEN [pc |-> "fetched", result |-> None, tags |-> acc, next |-> 0]
    ELSE IF page = <<>>
    THEN [pc |-> "fetched", result |-> Some(acc), tags |-> acc, next |-> 0]
    ELSE [pc |-> "fetch", result |-> None, tags |-> acc \o ghcr_page_tags(page),
          next |-> 1]

FetchGhcrPage ==
    /\ lst_pc = "fetch"
    /\ lst_registry = S_ghcr_io
    /\ LET r == ghcr_page(lst_fail_at = page_num,
                          page_at(lst_pages, page_num), lst_tags)
       IN  /\ lst_pc' = r.pc
           /\ lst_result' = r.result
           /\ lst_tags' = r.tags
           /\ page_num' = page_num + r.next
    /\ lst_requests' = Append(lst_requests, page_num)
    /\ UNCHANGED <<lst_registry, lst_pages, lst_fail_at, lst_latest, notLst>>

\* fetch_docker_tags and fetch_quay_tags: one request.
FetchSinglePage ==
    /\ lst_pc = "fetch"
    /\ lst_registry /= S_ghcr_io
    /\ lst_result' =
           IF lst_fail_at = 1 THEN None
           ELSE IF lst_registry = S_quay_io
           THEN Some(quay_tags(page_at(lst_pages, 1)))
           ELSE Some(docker_tags(page_at(lst_pages, 1)))
    /\ lst_requests' = Append(lst_requests, 1)
    /\ lst_pc' = "fetched"
    /\ UNCHANGED <<lst_registry, lst_pages, lst_fail_at, page_num, lst_tags,
                   lst_latest, notLst>>

\* get_latest_image_tag from the return of the fetch function on.
LatestOfListing ==
    /\ lst_pc = "fetched"
    /\ lst_latest' = get_latest_image_tag_of(lst_result)
    /\ lst_pc' = "latest"
    /\ UNCHANGED <<lst_registry, lst_pages, lst_fail_at, page_num, lst_tags,
                   lst_requests, lst_result, notLst>>

ListingNext ==
    \/ FetchGhcrPage
    \/ FetchSinglePage
    \/ LatestOfListing

(***************************************************************************)
(* image_utils.py: detect_registry_and_normalize                           *)
(***************************************************************************)
S_library == <<"l", "i", "b", "r", "a", "r", "y">>
S_my_reg == <<"m", "y", ".", "r">>
S_app == <<"a", "p", "p">>

\* "/".join(parts)
RECURSIVE join(_)
join(parts) ==
    IF parts = <<>> THEN <<>>
    ELSE IF Len(parts) = 1 THEN parts[1]
    ELSE parts[1] \o <<"/">> \o join(Tail(parts))

\* str.startswith(prefix)
startswith(s, prefix) ==
    Len(s) >= Len(prefix) /\ SubSeq(s, 1, Len(prefix)) = prefix

detect_registry_keeping_host(image_name) ==
    LET parts == split(image_name, "/")
        registry == IF Len(parts) > 1 /\ contains(parts[1], S_dot)
                    THEN parts[1] ELSE S_docker_io
    IN  [registry |-> registry, image_name |-> image_name]

\* detect_registry_and_normalize(image_name)
detect_registry_and_normalize(image_name) ==
    LET parts == split(image_name, "/")
        hosted == Len(parts) > 1 /\ contains(parts[1], S_dot)
        registry == IF hosted THEN parts[1] ELSE S_docker_io
        name == IF hosted THEN join(Tail(parts)) ELSE join(parts)
    IN  [registry |-> registry,
         image_name |->
             IF /\ registry = S_docker_io
                /\ ~startswith(name, S_library \o <<"/">>)
                /\ Len(split(name, "/")) = 1
             THEN S_library \o <<"/">> \o name
             ELSE name]

SegmentUniverse ==
    {Y_nginx, S_library, S_app, S_docker_io, S_ghcr_io, S_my_reg}

\* /-separated segments of an image name.
MaxSegments == 3

RegistryInit ==
    /\ reg_pc = "input"
    /\ reg_image \in {join(p) : p \in SeqsUpTo(SegmentUniverse, MaxSegments) \ {<<>>}}
    /\ reg_result = [registry |-> <<>>, image_name |-> <<>>]

RegistryOff ==
    /\ reg_pc = "off"
    /\ reg_image = <<>>
    /\ reg_result = [registry |-> <<>>, image_name |-> <<>>]

DetectRegistryAndNormalize ==
    /\ reg_pc = "input"
    /\ reg_result' = detect_registry_and_normalize(reg_image)
    /\ reg_pc' = "done"
    /\ UNCHANGED <<reg_image, notReg>>

RegistryNext ==
    \/ DetectRegistryAndNormalize

(***************************************************************************)
(* chart_utils.py check_for_chart_update and image_utils.py                *)
(* check_for_image_update: the loop over the dependencies of a Chart.yaml  *)
(* and over the containers of a deployment, one iteration per step         *)
(***************************************************************************)
\* The entries of a file with what their remote side answers.
ChartEntries ==
    {[pinned |-> C_1_2_0, remote |-> i] :
        i \in {IndexFailed, IndexWithout, IndexWith(<<C_1_2_0>>),
               IndexWith(<<C_1_10_0, C_1_2_0>>), IndexWith(<<C_1_3_0_beta>>)}}

ContainerEntries ==
    {[pinned |-> I_nginx_1_2_0, remote |-> f] :
        f \in {None, Some(<<T_latest>>), Some(<<T_1_2_0>>),
               Some(<<T_1_2_0, T_1_3_0>>)}}
        \cup {[pinned |-> I_gcr_app_1_2_0, remote |-> Some(<<T_1_3_0>>)]}

\* Dependencies of a Chart.yaml, containers of a deployment.
MaxDeps == 3

\* The body of the loop for one entry: the record it returns with the new
\* pinned value, None returned, the next entry, or an exception.
check_entry(category, pinned, remote) ==
    IF category = "chart"
    THEN LET r == check_for_chart_update(
                      [namespace |-> "apps", version |-> pinned], remote)
         IN  IF r.kind = "record"
             THEN [next |-> "return record", pinned |-> r.doc_version]
             ELSE [next |-> "continue", pinned |-> pinned]
    ELSE LET r == check_for_image_update(<<pinned>>, <<remote>>, 1)
         IN  IF r.kind = "record"
             THEN [next |-> "return record", pinned |-> r.deployment_file[1]]
             ELSE IF r.kind /= "none"
             THEN [next |-> "raise", pinned |-> pinned]
             ELSE IF get_latest_image_tag_from(remote).some
             THEN [next |-> "continue", pinned |-> pinned]
             ELSE [next |-> "return None", pinned |-> pinned]

after_record_continuing(next) ==
    IF next \in {"return record", "continue"} THEN "loop"
    ELSE IF next = "raise" THEN "raised" ELSE "returned"

\* return {...} inside the loop, return None, or the next iteration.
after_entry(next) ==
    IF next = "continue" THEN "loop"
    ELSE IF next = "raise" THEN "raised" ELSE "returned"

NoEntryResult == [kind |-> "none", at |-> 0]

EntriesInit ==
    /\ ent_pc = "loop"
    /\ ent_category \in {"chart", "deployment"}
    /\ \E n \in 1..MaxDeps :
           \E es \in [1..n -> IF ent_category = "chart" THEN ChartEntries
                              ELSE ContainerEntries] :
               /\ ent_original = [k \in 1..n |-> es[k].pinned]
               /\ ent_remote = [k \in 1..n |-> es[k].remote]
    /\ ent_doc = ent_original
    /\ ent_k = 1
    /\ ent_evaluated = <<>>
    /\ ent_result = NoEntryResult

EntriesOff ==
    /\ ent_pc = "off"
    /\ ent_category = "chart"
    /\ ent_original = <<>>
    /\ ent_doc = <<>>
    /\ ent_remote = <<>>
    /\ ent_k = 1
    /\ ent_evaluated = <<>>
    /\ ent_result = NoEntryResult

\* One iteration: the request for the entry, the comparison, the rewrite.
CheckEntry ==
    /\ ent_pc = "loop"
    /\ ent_k <= Len(ent_doc)
    /\ LET e == check_entry(ent_category, ent_doc[ent_k], ent_remote[ent_k])
       IN  /\ ent_doc' = [ent_doc EXCEPT ![ent_k] = e.pinned]
           /\ ent_pc' = after_entry(e.next)
           /\ ent_result' =
                  IF e.next = "return record"
                  THEN [kind |-> "record", at |-> ent_k]
                  ELSE ent_result
    /\ ent_evaluated' = Append(ent_evaluated, ent_k)
    /\ ent_k' = ent_k + 1
    /\ UNCHANGED <<ent_category, ent_original, ent_remote, notEnt>>

\* The loop is over: the function returns None.
CheckReturnsNone ==
    /\ ent_pc = "loop"
    /\ ent_k > Len(ent_doc)
    /\ ent_pc' = "returned"
    /\ UNCHANGED <<ent_category, ent_original, ent_doc, ent_remote, ent_k,
                   ent_evaluated, ent_result, notEnt>>

EntriesNext ==
    \/ CheckEntry
    \/ CheckReturnsNone

(***************************************************************************)
(* Specifications                                                          *)
(***************************************************************************)
CoreOff ==
    PolicyOff /\ TagOff /\ ChartOff /\ ScanOff /\ ImageOff /\ RunOff
AuxOff == HttpOff /\ NotifyOff /\ FindOff /\ YamlOff /\ ListingOff /\ RegistryOff /\ EntriesOff

InitPolicy ==
    PolicyInit /\ TagOff /\ ChartOff /\ ScanOff /\ ImageOff /\ RunOff /\ AuxOff
SpecPolicy == InitPolicy /\ [][PolicyNext]_vars

InitTags ==
    TagInit /\ PolicyOff /\ ChartOff /\ ScanOff /\ ImageOff /\ RunOff /\ AuxOff
SpecTags == InitTags /\ [][TagNext]_vars

InitChart ==
    ChartInit /\ PolicyOff /\ TagOff /\ ScanOff /\ ImageOff /\ RunOff /\ AuxOff
SpecChart == InitChart /\ [][ChartNext]_vars

InitScan ==
    ScanInit /\ PolicyOff /\ TagOff /\ ChartOff /\ ImageOff /\ RunOff /\ AuxOff
SpecScan == InitScan /\ [][ScanNext]_vars

InitImage ==
    ImageInit /\ PolicyOff /\ TagOff /\ ChartOff /\ ScanOff /\ RunOff /\ AuxOff
SpecImage == InitImage /\ [][ImageNext]_vars

InitHttp == HttpInit /\ CoreOff /\ NotifyOff /\ FindOff /\ YamlOff /\ ListingOff /\ RegistryOff /\ EntriesOff
SpecHttp == InitHttp /\ [][HttpNext]_vars

InitNtf == NotifyInit /\ CoreOff /\ HttpOff /\ FindOff /\ YamlOff /\ ListingOff /\ RegistryOff /\ EntriesOff
SpecNotify == InitNtf /\ [][NotifyNext]_vars

InitFnd == FindInit /\ CoreOff /\ HttpOff /\ NotifyOff /\ YamlOff /\ ListingOff /\ RegistryOff /\ EntriesOff
SpecFind == InitFnd /\ [][FindNext]_vars

InitYml == YamlInit /\ CoreOff /\ HttpOff /\ NotifyOff /\ FindOff /\ ListingOff /\ RegistryOff /\ EntriesOff
SpecYaml == InitYml /\ [][YamlNext]_vars

InitLst == ListingInit /\ CoreOff /\ HttpOff /\ NotifyOff /\ FindOff /\ YamlOff /\ RegistryOff /\ EntriesOff
SpecListing == InitLst /\ [][ListingNext]_vars

InitReg == RegistryInit /\ CoreOff /\ HttpOff /\ NotifyOff /\ FindOff /\ YamlOff /\ ListingOff /\ EntriesOff
SpecRegistry == InitReg /\ [][RegistryNext]_vars

InitEnt == EntriesInit /\ CoreOff /\ HttpOff /\ NotifyOff /\ FindOff /\ YamlOff /\ ListingOff /\ RegistryOff
SpecEntries == InitEnt /\ [][EntriesNext]_vars

\* The three detectors, one of them at work in a behaviour.
InitDetectors ==
    /\ \/ ChartInit /\ ImageOff
       \/ ImageInit /\ ChartOff
    /\ PolicyOff /\ TagOff /\ ScanOff /\ RunOff /\ AuxOff
NextDetectors ==
    \/ ChartNext
    \/ ImageNext
SpecDetectors == InitDetectors /\ [][NextDetectors]_vars

Init ==
    RunInit /\ PolicyOff /\ TagOff /\ ChartOff /\ ScanOff /\ ImageOff /\ AuxOff
Spec == Init /\ [][RunNext]_vars

(***************************************************************************)
(* Claims                                                                  *)
(***************************************************************************)
\* The leading dot-separated segment, stated without split: the prefix that
\* holds no '.' and is followed by a '.' or by the end of the string.
LeadingSegment(s) ==
    LET k == CHOOSE j \in 0..Len(s) :
                 /\ \A i \in 1..j : s[i] /= "."
                 /\ (j = Len(s) \/ s[j + 1] = ".")
    IN  SubSeq(s, 1, k)

DotSegments(s) == 1 + Cardinality({i \in 1..Len(s) : s[i] = "."})

\* C4: for chart update records is_safe(original, new) is true exactly when
\* the leading dot-separated segments of the two versions are equal.
C4_ChartSafeIffLeadingEqual ==
    pol_pc = "chart_done" =>
        (chart_safe <=>
            LeadingSegment(original_version) = LeadingSegment(new_version))

C4_Witness ==
    /\ pol_pc = "chart_done"
    /\ original_version = V_2_3_1
    /\ new_version = V_2_4_0
    /\ chart_safe

\* C5: an image update record is safe iff both tags have at least two
\* dot-segments and equal leading segments; a tag with fewer than two
\* dot-segments makes the record risky even when the leading segments agree.
C5_ImageSafeIffTwoSegmentsAndLeadingEqual ==
    pol_pc = "image_done" =>
        (image_safe <=>
            /\ DotSegments(original_version) >= 2
            /\ DotSegments(new_version) >= 2
            /\ LeadingSegment(original_version) = LeadingSegment(new_version))

C5_Witness ==
    /\ pol_pc = "image_done"
    /\ original_version = V_2
    /\ new_version = V_2_0
    /\ LeadingSegment(original_version) = LeadingSegment(new_version)
    /\ ~image_safe

Count(seq, x) == Cardinality({i \in DOMAIN seq : seq[i] = x})

\* An optional leading v followed by 3 or 4 dot-separated groups of digits,
\* stated without the regular expression.
IsSemverLike(tag) ==
    LET body == IF tag /= <<>> /\ tag[1] = "v" THEN Tail(tag) ELSE tag
        dots == {i \in DOMAIN body : body[i] = "."}
    IN  /\ body /= <<>>
        /\ \A i \in DOMAIN body : body[i] \in Digits \cup {"."}
        /\ Cardinality(dots) \in {2, 3}
        /\ 1 \notin dots /\ Len(body) \notin dots
        /\ \A i \in dots : i + 1 \notin dots

\* C6: filter_and_sort_tags keeps exactly the tags made of an optional v and
\* 3 or 4 dot-separated numeric groups (each as often as it was listed),
\* returns None when there is none, and maps the listing
\* [1.2.3, 1.2.3-rc1, latest, v2.0.0.1, abc] to [v2.0.0.1, 1.2.3].
C6_FilterKeepsExactlySemverLike ==
    tag_pc = "sorted" =>
        /\ sorted_tags.some <=>
               \E i \in DOMAIN tags.val : IsSemverLike(tags.val[i])
        /\ \A t \in TagUniverse :
               Count(sorted_tags.val, t) =
                   IF IsSemverLike(t) THEN Count(tags.val, t) ELSE 0
        /\ tags.val = ExampleTags =>
               sorted_tags.val = <<T_v2_0_0_1, T_1_2_3>>

C6_Witness ==
    /\ tag_pc = "sorted"
    /\ tags.val = ExampleTags
    /\ sorted_tags = Some(<<T_v2_0_0_1, T_1_2_3>>)

\* The numeric groups of a surviving tag, the optional v dropped.
VersionNumbers(tag) ==
    LET body == IF tag[1] = "v" THEN Tail(tag) ELSE tag
        segs == split(body, ".")
    IN  [i \in DOMAIN segs |-> to_int(segs[i])]

RECURSIVE NumbersLess(_, _)
NumbersLess(a, b) ==
    IF b = <<>> THEN FALSE
    ELSE IF a = <<>> THEN TRUE
    ELSE IF a[1] /= b[1] THEN a[1] < b[1]
    ELSE NumbersLess(Tail(a), Tail(b))

Survivors == {tags.val[i] : i \in {j \in DOMAIN tags.val : IsSemverLike(tags.val[j])}}

\* C7: get_latest_image_tag returns the surviving tag whose numeric groups,
\* compared as numbers, are the highest, also when v-prefixed and unprefixed
\* tags occur in the same listing.
C7_LatestIsNumericallyHighest ==
    (tag_pc = "latest" /\ latest_tag.some) =>
        /\ latest_tag.val \in Survivors
        /\ \A t \in Survivors :
               ~NumbersLess(VersionNumbers(latest_tag.val), VersionNumbers(t))

HasPrerelease(v) ==
    \E w \in {S_dev, S_alpha, S_beta} :
        \E i \in 1..Len(v) : \E j \in i..Len(v) : SubSeq(v, i, j) = w

\* C8: the version a chart check selects (the head of its sorted list, which
\* it compares with the pinned version) never contains dev, alpha or beta and
\* is the first, in natural descending order, of the index versions that
\* contain none of them; [1.2.0, 1.3.0-beta, 1.1.0] gives 1.2.0.
C8_SelectsHighestStableVersion ==
    (chart_pc \in {"helm_done", "chart_done"} /\ Truthy(remote_versions)) =>
        LET selected == remote_versions.val[1]
            remaining == {chart_index.versions[i] :
                             i \in {j \in DOMAIN chart_index.versions :
                                       ~HasPrerelease(chart_index.versions[j])}}
        IN  /\ ~HasPrerelease(selected)
            /\ selected \in remaining
            /\ \A r \in remaining :
                   ~key_less(natsort_key(selected), natsort_key(r))
            /\ chart_result.kind = "record" =>
                   chart_result.new_version = selected
            /\ chart_index.versions = ExampleVersions => selected = C_1_2_0

C8_Witness ==
    /\ chart_pc = "helm_done"
    /\ chart_index = IndexWith(ExampleVersions)
    /\ chart_result.kind = "record"
    /\ chart_result.original_version = C_1_1_0
    /\ chart_result.new_version = C_1_2_0

\* Entry id lies, at any depth, beneath a directory named overlays.
RECURSIVE BeneathOverlays(_, _)
BeneathOverlays(tree, id) ==
    LET p == tree[id].parent
    IN  /\ p /= 0
        /\ \/ (tree[p].type = "dir" /\ tree[p].name = N_overlays)
           \/ BeneathOverlays(tree, p)

Returned ==
    {kustomize_file_list[i] : i \in DOMAIN kustomize_file_list}
        \cup {deployment_file_list[i] : i \in DOMAIN deployment_file_list}
        \cup {chart_file_list[i] : i \in DOMAIN chart_file_list}

\* C9: the scanner never lists the contents of a directory named overlays and
\* returns no file that lies beneath such a directory in any of its lists.
C9_NeverDescendsIntoOverlays ==
    scan_pc = "done" =>
        /\ \A i \in DOMAIN listed : repo_tree[listed[i]].name /= N_overlays
        /\ \A id \in Returned : ~BeneathOverlays(repo_tree, id)

C9_Witness ==
    /\ scan_pc = "done"
    /\ \E id \in DOMAIN repo_tree :
           /\ repo_tree[id].type = "file"
           /\ repo_tree[id].name = N_kustomization_yaml
           /\ repo_tree[id].parent /= 0
           /\ repo_tree[repo_tree[id].parent].name = N_overlays
           /\ repo_tree[repo_tree[id].parent].parent /= 0
           /\ id \notin Returned
    /\ listed /= <<>>

NameEndsWith(name, suffix) ==
    \E k \in 0..Len(name) : name = SubSeq(name, 1, k) \o suffix

FilesNotBeneathOverlays ==
    {id \in DOMAIN repo_tree :
        repo_tree[id].type = "file" /\ ~BeneathOverlays(repo_tree, id)}

AsSet(seq) == {seq[i] : i \in DOMAIN seq}

\* C10: over the files that are not beneath a directory named overlays, the
\* Kustomize list holds exactly those named kustomization.yaml, the
\* Deployment list exactly those whose name ends with deployment.yaml and the
\* Chart list exactly those named Chart.yaml, each once and in one list only.
C10_ListsHoldExactlyTheMatchingFiles ==
    scan_pc = "done" =>
        /\ AsSet(kustomize_file_list) =
               {id \in FilesNotBeneathOverlays :
                   repo_tree[id].name = N_kustomization_yaml}
        /\ AsSet(deployment_file_list) =
               {id \in FilesNotBeneathOverlays :
                   NameEndsWith(repo_tree[id].name, N_deployment_yaml)}
        /\ AsSet(chart_file_list) =
               {id \in FilesNotBeneathOverlays :
                   repo_tree[id].name = N_Chart_yaml}
        /\ \A id \in Returned :
               Count(kustomize_file_list, id) + Count(deployment_file_list, id)
                   + Count(chart_file_list, id) = 1

C10_Witness ==
    /\ scan_pc = "done"
    /\ kustomize_file_list /= <<>>
    /\ chart_file_list /= <<>>
    /\ \E i \in DOMAIN deployment_file_list :
           repo_tree[deployment_file_list[i]].name = N_app_deployment_yaml

RunEnded == run_pc \in {"exit0", "exit1"}

ObjectsOf(h) == {h.objects[i] : i \in DOMAIN h.objects}

\* C1: at the end of a live run, every group handle_updates was called for
\* has been merged by the run if it is a safe group, and if it is a risky
\* group it is unmerged with the pull request left open.
C1_GroupMergedIffSafe ==
    (RunEnded /\ ~dry_run) =>
        \A i \in DOMAIN handled :
            LET h == handled[i]
                merged == ObjectsOf(h) \subseteq merged_by_run
            IN  /\ merged <=> ~GroupIsMajor(h.group)
                /\ GroupIsMajor(h.group) => open_pr

\* C2: no run's merges bring the bump of a risky (major-version) update
\* record to the default branch.
C2_RiskyNeverMergedByRun ==
    \A id \in merged_by_run : is_minor_or_patch(world, id)

\* C3: a dry run that got past the environment check ends without any
\* mutating source-control call, with the detectors' records in hand and
\* with the notification of every non-empty group sent.
C3_DryRunMutatesNothingAndNotifiesAll ==
    (RunEnded /\ dry_run
        /\ \A i \in DOMAIN notifications : notifications[i].kind /= "terminating") =>
        /\ calls = <<>>
        /\ merged_by_run = {}
        /\ helm_updates \o image_updates \o chart_updates /= <<>> =>
               \A g \in 1..6 :
                   GroupUpdates(g) /= <<>> =>
                       \E i \in DOMAIN notifications :
                           /\ notifications[i].kind = "group"
                           /\ notifications[i].update_type = GroupType(g)
                           /\ notifications[i].is_major = GroupIsMajor(g)

\* C11: however often create_branch_for_updates has been invoked for the
\* day's branch, the branch has been created exactly once if it was invoked
\* at all and never twice; it starts from the default branch's tip, so it
\* holds everything the default branch holds.
C11_BranchCreatedExactlyOnce ==
    /\ refs_created = (IF branch_exists THEN 1 ELSE 0)
    /\ (\E i \in DOMAIN handled : handled[i].live) => refs_created = 1
    /\ Len(SelectSeq(calls, LAMBDA c : c = "create_git_ref")) <= 1
    /\ branch_exists => main_changes \subseteq branch_changes

\* Two invocations in one run and a further one in a later run.
C11_Witness ==
    /\ runs = 2
    /\ Len(handled) >= 2
    /\ \A i \in DOMAIN handled : handled[i].live
    /\ "create_git_ref" \notin {calls[i] : i \in DOMAIN calls}
    /\ refs_created = 1

\* C12: the check of a Kustomize file whose chart has namespace "databases"
\* returns no update record and leaves the document as it was, whatever the
\* repository index offers.
C12_DatabasesNamespaceNeverUpdated ==
    [][(chart_pc = "input" /\ chart_pc' = "helm_done"
            /\ chart_doc.namespace = "databases")
           => (chart_result'.kind = "none" /\ chart_doc' = chart_doc)]_vars

\* A "databases" chart has been checked while the index offered a newer
\* stable version.
C12_Witness ==
    /\ chart_pc = "helm_done"
    /\ chart_doc.namespace = "databases"
    /\ chart_index.fetched /\ chart_index.present
    /\ stable_versions_sorted(chart_index.versions) /= <<>>
    /\ stable_versions_sorted(chart_index.versions)[1] /= chart_doc.version

\* The last Len(suffix) characters of s are suffix.
EndsWith(s, suffix) ==
    /\ Len(s) >= Len(suffix)
    /\ \A k \in 1..Len(suffix) : s[Len(s) - Len(suffix) + k] = suffix[k]

\* C13: a record returned by check_for_helm_chart_update,
\* check_for_chart_update or check_for_image_update has a new version (tag)
\* that differs from the original one, and the document the record carries
\* already holds the new value in the field the detector targets.
C13_RecordIsAChangeAndDocumentHoldsIt ==
    /\ (chart_pc \in {"helm_done", "chart_done"} /\ chart_result.kind = "record") =>
           /\ chart_result.new_version /= chart_result.original_version
           /\ chart_result.doc_version = chart_result.new_version
           /\ chart_doc.version = chart_result.new_version
    /\ (img_pc = "done" /\ img_result.kind = "record") =>
           /\ img_result.new_tag /= img_result.current_tag
           /\ img_result.deployment_file = containers
           /\ \E k \in DOMAIN containers :
                  /\ EndsWith(containers[k], <<":">> \o img_result.new_tag)
                  /\ Len(containers[k]) =
                         Len(img_result.image_name) + 1 + Len(img_result.new_tag)
                  /\ SubSeq(containers[k], 1, Len(img_result.image_name)) =
                         img_result.image_name

\* The image detector returned a record for the second container of a
\* deployment file whose first container is up to date.
C13_Witness ==
    /\ img_pc = "done"
    /\ img_result.kind = "record"
    /\ Len(containers) = 2
    /\ EndsWith(containers[2], <<":">> \o img_result.new_tag)
    /\ img_result.current_tag = T_1_2_0
    /\ img_result.new_tag = T_1_3_0

\* C14: update_file puts a record's document on the branch only when the
\* file's blob there is the one whose sha the scan captured; a file whose
\* content on the branch differs from the scanned one is never written.
C14_WritesOnlyOnMatchingSha ==
    \A i \in DOMAIN handled :
        \A k \in DOMAIN handled[i].written :
            handled[i].written[k] \notin handled[i].stale

\* A group of two records: the first was written, the second met a blob
\* other than the scanned one and was not.
C14_Witness ==
    /\ run_pc = "exit1"
    /\ handled /= <<>>
    /\ LET h == handled[Len(handled)]
       IN  /\ h.live
           /\ Len(h.objects) = 2
           /\ h.stale = {h.objects[2]}
           /\ h.written = <<h.objects[1]>>

\* C15: in a live group, a record whose write failed on a sha mismatch does
\* not keep the other records of the group from being written: every record
\* of the group whose blob on the branch is the scanned one is written.
C15_OtherRecordsStillAttempted ==
    \A i \in DOMAIN handled :
        handled[i].live =>
            ObjectsOf(handled[i]) \ handled[i].stale
                \subseteq {handled[i].written[k] : k \in DOMAIN handled[i].written}

\* C16: when, in a run past the environment check, the check of exactly one
\* file fails (its registry is unreachable or its chart lookup fails), every
\* update the detectors can find for the other files is handed to
\* handle_all_updates for reconciliation.
C16_SingleFailureNeverBlocksOthers ==
    [][(BetweenRuns /\ runs' = runs + 1 /\ env' = RequiredVars) =>
           LET pending == avail \ main_changes
               failed == {id \in UpdateIds :
                             detect(world, pending, id) \in {"none", "raises"}}
               found == {id \in UpdateIds :
                            detect(world, pending, id) = "record"}
               detected == helm_updates' \o image_updates' \o chart_updates'
           IN  (Cardinality(failed) = 1 /\ found /= {}) =>
                   /\ found \subseteq {detected[k] : k \in DOMAIN detected}
                   /\ run_pc' = "handle_all_updates"]_vars

\* C17: every group handle_updates brought to its terminal state (in a dry
\* run every handled group, in a live run a group whose pull request was
\* merged or left open) has exactly one notification, which names every
\* record of the group and tells whether it was applied or queued.
C17_OneNotificationPerHandledGroup ==
    \A i \in DOMAIN handled :
        LET h == handled[i]
            its == {k \in DOMAIN notifications :
                       /\ notifications[k].kind = "group"
                       /\ notifications[k].update_type = GroupType(h.group)
                       /\ notifications[k].is_major = GroupIsMajor(h.group)
                       /\ notifications[k].names = h.objects}
        IN  (~h.live \/ h.pr \in {"merged", "open"}) => Cardinality(its) = 1

C19_BranchAndPullRequestReused ==
    /\ refs_created <= 1
    /\ \A i \in DOMAIN handled : ~handled[i].pull_rejected

\* C20: a run started with GITHUB_PAT or GHCR_TOKEN unset has ended with
\* exit code 1 and the "Script terminating" notification, without any
\* request to the source-control service, scan, resolver request or
\* mutating call.
C20_MissingCredentialExitsBeforeAnyWork ==
    env /= RequiredVars =>
        /\ run_pc = "exit1"
        /\ Len(notifications) = 1
        /\ notifications[1].kind = "terminating"
        /\ reads = <<>>
        /\ calls = <<>>
        /\ handled = <<>>
        /\ merged_by_run = {}
        /\ helm_updates \o image_updates \o chart_updates = <<>>

\* Only GHCR_TOKEN is unset while a live run would have found an update.
C20_Witness ==
    /\ env = {"GITHUB_PAT"}
    /\ run_pc = "exit1"
    /\ ~dry_run
    /\ \E id \in avail \ main_changes : world[id].detect = "record"

\* Failure notifications of main's except clause among the run's messages.
ErrorNotifications ==
    {k \in DOMAIN notifications : notifications[k].kind = "error"}

\* C21: in a run past the environment check, an exception of the detection
\* (a detector left its loop before the last file) or of the reconciliation
\* (a handle_updates call that did not reach its end) ends the run at once
\* with exit code 1 and one failure notification, the run's last message; a
\* run that did not end with exit code 1 sent no failure notification.
C21_UnexpectedExceptionCaughtOnce ==
    (runs >= 1 /\ env = RequiredVars) =>
        LET detection_cut == Len(reads) < 2 + MaxUpd
            reconciliation_cut ==
                \E i \in DOMAIN handled : ~handled[i].notified
        IN  /\ (detection_cut \/ reconciliation_cut) => run_pc = "exit1"
            /\ run_pc = "exit1" =>
                   /\ Cardinality(ErrorNotifications) = 1
                   /\ notifications[Len(notifications)].kind = "error"
                   /\ \A i \in DOMAIN handled :
                          ~handled[i].notified => i = Len(handled)
                   /\ detection_cut => handled = <<>> /\ calls = <<>>
            /\ run_pc /= "exit1" => ErrorNotifications = {}

\* An exception in the second handle_updates call of a live run, after the
\* first group was notified.
C21_Witness ==
    /\ env = RequiredVars
    /\ run_pc = "exit1"
    /\ Len(handled) = 2
    /\ handled[1].notified /\ ~handled[2].notified
    /\ Len(notifications) = 2
    /\ notifications[2].kind = "error"

\* C22: a run past the environment check in which no check raises and no
\* check returns a record returns from main with exit code 0 and has made
\* no mutating source-control call and sent no group or failure
\* notification; branch, default branch and pull request are as before.
C22_NothingToUpdateExitsCleanly ==
    [][(BetweenRuns /\ runs' = runs + 1 /\ env' = RequiredVars) =>
           LET pending == avail \ main_changes
               outcomes == {detect(world, pending, id) : id \in UpdateIds}
           IN  outcomes \subseteq {"current", "none"} =>
                   /\ run_pc' = "exit0"
                   /\ calls' = <<>>
                   /\ handled' = <<>>
                   /\ \A k \in DOMAIN notifications' :
                          notifications'[k].kind \notin {"group", "error"}
                   /\ merged_by_run' = {}
                   /\ UNCHANGED repoVars]_vars

\* A run that checked a file whose registry gave no tag, found nothing and
\* returned.
C22_Witness ==
    /\ env = RequiredVars
    /\ runs = 1
    /\ run_pc = "exit0"
    /\ handled = <<>>
    /\ Len(reads) = 2 + MaxUpd
    /\ \E id \in avail : world[id].detect = "none"

\* C23: a resolver's HTTP request is put on the wire a bounded number of
\* times: at most Retries + 1 times per call of the session, and
\* RetrySession calls the session at most Retries + 1 times when name
\* resolution fails; the cut-off of the model is never reached.  Once the
\* request has returned a response or raised, nothing more is sent, and
\* the fetching function hands the response on only when it is a 200,
\* otherwise the lookup (and only the lookup) has failed.
C23_RequestAttemptsBounded ==
    /\ [](/\ http_attempt <= Retries
          /\ http_sent <= (Retries + 1) * (http_attempt + 1)
          /\ http_client /= "RetrySession" => http_attempt = 0
          /\ http_sent < MaxSent
          /\ http_pc = "returned" =>
                 http_result \notin status_forcelist(http_client)
          /\ http_pc = "done" =>
                 (http_lookup = "response" <=> http_result = "200"))
    /\ [][(http_pc \in {"returned", "raised", "done"}) =>
              (http_sent' = http_sent /\ http_pc' = "done")]_vars

C23_Witness ==
    /\ http_client = "requests_retry_session"
    /\ http_pc = "done"
    /\ http_result = "RetryError"
    /\ http_sent = Retries + 1
    /\ http_lookup = "not-found, notified"

C23_WitnessFirstSuccess ==
    /\ http_client = "RetrySession"
    /\ http_pc = "done"
    /\ http_sent = 2
    /\ http_lookup = "response"

\* C30: the fetch of a chart repository index is retried on a transient
\* failure: when it ends as a failed lookup after a server error or a
\* connection error, more than one request has been sent.
C30_ChartIndexFetchRetried ==
    (/\ http_client = "requests.get"
     /\ http_pc = "done"
     /\ http_result \in {"500", "502", "503", "504", "ConnectionError",
                         "RetryError"})
        => http_sent > 1

\* C26: a record is produced only when the remote side offers something
\* newer: the record's new version (tag) is strictly higher than the
\* original one in numeric version order, so a pinned value above the
\* remote latest never yields a record.
C26_RecordOnlyForNewerVersion ==
    /\ (chart_pc \in {"helm_done", "chart_done"} /\ chart_result.kind = "record") =>
           NumbersLess(VersionNumbers(chart_result.original_version),
                       VersionNumbers(chart_result.new_version))
    /\ (img_pc = "done" /\ img_result.kind = "record") =>
           NumbersLess(VersionNumbers(img_result.current_tag),
                       VersionNumbers(img_result.new_tag))

\* C25: whatever happens to the notification (variables of the sink not
\* set, an error status, retries used up, an exception while sending),
\* send_notification returns without raising, and its caller goes on as it
\* does after a delivered notification: the two exits stay exits with
\* code 1, every other caller continues.
C25_NotificationFailureNeverRaises ==
    /\ ntf_pc /= "raised"
    /\ ntf_pc = "done" =>
           /\ ntf_after /= "exception propagates"
           /\ (ntf_after = "sys.exit(1)") <=>
                  (ntf_site \in {"missing variables", "unexpected error"})
           /\ \A s \in NotifySites :
                  (s = ntf_site) => (ntf_after = after_notification(s))

C25_Witness ==
    /\ ntf_pc = "done"
    /\ ntf_config = NtfyVars
    /\ ntf_site = "group handled"
    /\ ntf_sent = NtfyRetries + 1
    /\ ntf_out = "printed failure"
    /\ ntf_after = "handle_updates returns"

C25_WitnessNoConfiguration ==
    /\ ntf_pc = "done"
    /\ ntf_config = {"NTFY_TOPIC"}
    /\ ntf_out = "printed missing variables"
    /\ ntf_site = "lookup failed"
    /\ ntf_after = "return None"

\* Position of a mutating call in the order of handle_updates' states.
CallRank(c) ==
    IF c = "create_git_ref" THEN 1
    ELSE IF c = "update_file" THEN 2
    ELSE IF c = "create_pull" THEN 3
    ELSE 4

CallCount(s, c) == Cardinality({k \in DOMAIN s : s[k] = c})

RECURSIVE CallsOfGroups(_)
CallsOfGroups(h) ==
    IF h = <<>> THEN <<>> ELSE h[1].calls \o CallsOfGroups(Tail(h))

\* C28: the mutating calls of a live group come in the order branch,
\* commits, pull request, merge: the pull request is created once, after
\* every record of the group has been committed; the merge follows the
\* pull request and only in a group of minor or patch updates; the group's
\* notification is sent only when the pull request exists and, for a minor
\* or patch group, has been merged.  A dry-run group makes no call, and the
\* run's calls are those of its groups in the order of the groups.
C28_GroupStatesInOrder ==
    /\ calls = CallsOfGroups(handled)
    /\ \A i \in DOMAIN handled :
           LET h == handled[i]
               s == h.calls
           IN  /\ ~h.live => s = <<>>
               /\ h.live => branch_exists
               /\ \A j, k \in DOMAIN s : j < k => CallRank(s[j]) <= CallRank(s[k])
               /\ \A c \in {"create_git_ref", "create_pull", "merge"} :
                      CallCount(s, c) <= 1
               /\ CallCount(s, "create_pull") = 1 =>
                      /\ CallCount(s, "update_file") = Len(h.objects)
                      /\ h.written = h.objects
               /\ CallCount(s, "merge") = 1 =>
                      /\ CallCount(s, "create_pull") = 1
                      /\ ~GroupIsMajor(h.group)
               /\ (h.live /\ h.notified) =>
                      /\ CallCount(s, "create_pull") = 1
                      /\ CallCount(s, "merge") = 1 <=> ~GroupIsMajor(h.group)

\* A live run that handled a minor group (branch created, two commits, pull
\* request, merge) and was notified of it.
C28_Witness ==
    /\ Len(handled) >= 1
    /\ handled[1].live
    /\ handled[1].notified
    /\ handled[1].calls =
           <<"create_git_ref", "update_file", "update_file", "create_pull",
             "merge">>

\* The files the loops have gone through.
Processed == 1..(fnd_i - 1)

\* Tag resolution for the file's image yields not-found: the request
\* failed, the registry lists no tag, or no tag survives the filter.
TagNotFound(file) ==
    /\ file.category = "deployment"
    /\ file.parse = "ok"
    /\ file.containers = <<I_nginx_1_2_0>>
    /\ file.fetched[1] \in {None, Some(<<>>), Some(<<T_latest>>)}

InSeq(s, x) == \E k \in DOMAIN s : s[k] = x

\* C24: a deployment file whose tag resolution yields not-found gives no
\* record and keeps its document as parsed, and the loop goes on: the file
\* is never the one an exception left the loop at, and a run of the loops
\* that returned has gone through every file.
C24_NotFoundLeavesFileUnchanged ==
    /\ \A k \in Processed :
           TagNotFound(fnd_files[k]) =>
               /\ ~InSeq(files_needing_updates, k)
               /\ fnd_docs[k].containers = fnd_files[k].containers
               /\ fnd_pc = "raised" => k /= fnd_i - 1
    /\ fnd_pc = "returned" => Len(fnd_docs) = Len(fnd_files)

\* The first deployment file's registry request failed, the second one
\* yielded a record, and the loops returned.
C24_Witness ==
    /\ fnd_pc = "returned"
    /\ Len(fnd_files) = 3
    /\ fnd_files[1] = DeploymentFile(<<I_nginx_1_2_0>>, <<None>>)
    /\ fnd_files[2] = DeploymentFile(<<I_nginx_1_2_0>>, <<Some(<<T_latest>>)>>)
    /\ files_needing_updates = <<3>>
    /\ fnd_docs[1].containers = <<I_nginx_1_2_0>>
    /\ fnd_docs[3].containers = <<S_docker_io \o S_slash \o I_nginx_1_3_0>>

\* C29: a file whose document is malformed yields no record and is not
\* checked, the error is logged and notified, and the loops go on with
\* the remaining files of its category and of the other categories.
C29_MalformedDocumentLoggedNotifiedSkipped ==
    \A k \in Processed :
        fnd_files[k].parse = "YAMLError" =>
            /\ ~InSeq(files_needing_updates, k)
            /\ ~InSeq(fnd_checked, k)
            /\ InSeq(fnd_events, [event |-> "warning", file |-> k])
            /\ InSeq(fnd_events, [event |-> "yaml notification", file |-> k])
            /\ fnd_pc = "raised" => k /= fnd_i - 1

RECURSIVE NamesUpTo(_, _)
NamesUpTo(pages, n) ==
    IF n = 0 THEN <<>> ELSE NamesUpTo(pages, n - 1) \o Flatten(pages[n])

NamesOf(result) == [k \in DOMAIN result |-> result[k].name]

\* C31: fetch_ghcr_tags requests the pages 1, 2, ... in order; while it
\* is fetching, it holds the tags of every version of the pages received;
\* it stops at the first empty page and returns all of them; when a request
\* fails it returns None, whatever it had accumulated.
C31_GhcrPagesUntilEmptyOrNothing ==
    lst_registry = S_ghcr_io =>
        /\ \A k \in DOMAIN lst_requests : lst_requests[k] = k
        /\ lst_pc = "fetch" =>
               /\ Len(lst_requests) = page_num - 1
               /\ NamesOf(lst_tags) = NamesUpTo(lst_pages, page_num - 1)
        /\ lst_pc \in {"fetched", "latest"} =>
               LET failed == lst_fail_at \in 1..(Len(lst_pages) + 1)
               IN  /\ failed => /\ lst_result = None
                                /\ Len(lst_requests) = lst_fail_at
                   /\ ~failed =>
                          /\ lst_result.some
                          /\ NamesOf(lst_result.val) =
                                 NamesUpTo(lst_pages, Len(lst_pages))
                          /\ Len(lst_requests) = Len(lst_pages) + 1

\* Two pages were received and the request of the third page failed.
C31_Witness ==
    /\ lst_registry = S_ghcr_io
    /\ lst_pc = "fetched"
    /\ Len(lst_pages) = 3
    /\ lst_fail_at = 3
    /\ lst_tags /= <<>>
    /\ lst_result = None

C31_WitnessAllPages ==
    /\ lst_registry = S_ghcr_io
    /\ lst_pc = "latest"
    /\ Len(lst_pages) = 2
    /\ lst_requests = <<1, 2, 3>>
    /\ lst_latest = Some(T_1_3_0)

\* C35: for a quay.io image one request is sent, and get_latest_image_tag
\* returns the highest semantic-version-like name among the name fields of
\* the tag entries of the response (None when the request failed or no
\* name is semantic-version-like).
C35_QuayLatestFromEntryNames ==
    (lst_registry = S_quay_io /\ lst_pc = "latest") =>
        /\ lst_requests = <<1>>
        /\ lst_latest =
               IF lst_fail_at = 1 THEN None
               ELSE get_latest_image_tag_from(
                        Some(Flatten(page_at(lst_pages, 1))))

\* What the check of container k of a deployment file comes to, taken by
\* itself: "raises" (no tag in the image, or a registry that is not
\* supported), "not-found", "current" or "differs".
ContainerCase(cs, fetched, k) ==
    LET p == parse_image(cs[k])
        latest == get_latest_image_tag_from(fetched[k])
    IN  IF ~p.ok THEN "raises"
        ELSE IF ~supported_registry(detect_registry(p.image_name)) THEN "raises"
        ELSE IF ~latest.some THEN "not-found"
        ELSE IF latest.val = p.tag THEN "current"
        ELSE "differs"

\* Container k is reached: every container before it is up to date.
Reached(cs, fetched, k) ==
    \A j \in 1..(k - 1) : ContainerCase(cs, fetched, j) = "current"

\* C32: when tag resolution fails for a container the detector reaches,
\* the deployment file yields no record and its document is the parsed one:
\* no container's image has been rewritten.
C32_FailedResolutionRewritesNothing ==
    [][(/\ img_pc = "input"
        /\ img_pc' = "done"
        /\ \E k \in DOMAIN containers :
               /\ Reached(containers, registry_tags, k)
               /\ ContainerCase(containers, registry_tags, k)
                      \in {"not-found", "raises"})
           => (/\ img_result'.kind /= "record"
               /\ containers' = containers
               /\ img_result'.deployment_file = containers)]_vars

\* The first of two containers has no resolvable tag, the second one is
\* behind its registry, and the check returned nothing.
C32_Witness ==
    /\ img_pc = "done"
    /\ Len(containers) = 2
    /\ containers[2] = I_nginx_1_2_0
    /\ registry_tags[1] = None
    /\ registry_tags[2] = Some(<<T_1_2_0, T_1_3_0>>)
    /\ img_result.kind = "none"

\* The first /-separated segment of the image is a host other than the
\* three registries.
OtherRegistryHost(image) ==
    LET parts == split(image, "/")
    IN  /\ Len(parts) > 1
        /\ contains(parts[1], S_dot)
        /\ parts[1] \notin {S_docker_io, S_ghcr_io, S_quay_io}

\* C34: a deployment file whose image is on another registry than
\* docker.io, ghcr.io and quay.io makes tag resolution raise: the file
\* gives no record and no not-found, and the exception leaves the loop at
\* this file instead of the loop going on to the next one.
C34_UnsupportedRegistryIsFatal ==
    \A k \in Processed :
        (/\ fnd_files[k].category = "deployment"
         /\ fnd_files[k].parse = "ok"
         /\ OtherRegistryHost(fnd_files[k].containers[1]))
            => /\ fnd_pc = "raised"
               /\ k = fnd_i - 1
               /\ ~InSeq(files_needing_updates, k)
               /\ fnd_docs[k].containers = fnd_files[k].containers

C34_Witness ==
    /\ fnd_pc = "raised"
    /\ Len(fnd_files) = 3
    /\ fnd_i = 3
    /\ fnd_files[2] = DeploymentFile(<<I_gcr_app_1_2_0>>, <<Some(<<T_1_3_0>>)>>)
    /\ files_needing_updates = <<1>>

\* The /-separated segments of an image name.
SegmentsOf(image) == split(image, "/")

\* C37: when an image name has more than one segment and a '.' in the
\* first one, that segment is the registry and the repository path is the
\* rest; otherwise the registry is docker.io and the path is the whole
\* name.  A docker.io path of a single segment gets the prefix library/.
C37_RegistryDetectionAndNormalization ==
    reg_pc = "done" =>
        LET p == SegmentsOf(reg_image)
            hosted == Len(p) > 1 /\ \E k \in DOMAIN p[1] : p[1][k] = "."
            path == IF hosted THEN Tail(p) ELSE p
            registry == IF hosted THEN p[1] ELSE S_docker_io
        IN  /\ reg_result.registry = registry
            /\ reg_result.image_name =
                   IF registry = S_docker_io /\ Len(path) = 1
                   THEN join(<<S_library>> \o path)
                   ELSE join(path)

\* docker.io/nginx: the host is removed and library/ is prefixed.
C37_Witness ==
    /\ reg_pc = "done"
    /\ reg_image = join(<<S_docker_io, Y_nginx>>)
    /\ reg_result = [registry |-> S_docker_io,
                     image_name |-> join(<<S_library, Y_nginx>>)]

C37_WitnessOtherHost ==
    /\ reg_pc = "done"
    /\ reg_image = join(<<S_my_reg, S_app, Y_nginx>>)
    /\ reg_result = [registry |-> S_my_reg, image_name |-> join(<<S_app, Y_nginx>>)]

\* C36: a Kustomize file whose chart has no entry in the fetched
\* repository index, or no version left after the dev/alpha/beta filter,
\* gives no record and keeps its document, and the loops go on with the
\* remaining files.
C36_KustomizeChartNotFoundIsSkipped ==
    \A k \in Processed :
        (/\ fnd_files[k].category = "kustomize"
         /\ fnd_files[k].parse = "ok"
         /\ fnd_files[k].index.fetched
         /\ \/ ~fnd_files[k].index.present
            \/ stable_versions_sorted(fnd_files[k].index.versions) = <<>>)
            => /\ ~InSeq(files_needing_updates, k)
               /\ fnd_docs[k].version = fnd_files[k].chart.version
               /\ fnd_pc = "raised" => k /= fnd_i - 1

Elems(s) == {s[k] : k \in DOMAIN s}

\* The records the detector of a group's category returned.
DetectedOfGroup(g) ==
    IF g \in {1, 2} THEN helm_updates
    ELSE IF g \in {3, 4} THEN image_updates ELSE chart_updates

\* C38: in each category the safe group and the risky group partition the
\* detected records: together they hold every record, no record is in
\* both; a record is handled in at most one handle_updates call, that of
\* the group its versions put it in, and a run that reaches its end has
\* handled every detected record exactly once.
C38_SafeAndRiskyPartitionRecords ==
    /\ \A g \in {1, 3, 5} :
           /\ Elems(GroupUpdates(g)) \cup Elems(GroupUpdates(g + 1)) =
                  Elems(DetectedOfGroup(g))
           /\ Elems(GroupUpdates(g)) \cap Elems(GroupUpdates(g + 1)) = {}
           /\ Len(GroupUpdates(g)) + Len(GroupUpdates(g + 1)) =
                  Len(DetectedOfGroup(g))
    /\ \A i \in DOMAIN handled :
           /\ handled[i].objects = GroupUpdates(handled[i].group)
           /\ \A j \in DOMAIN handled :
                  i /= j => Elems(handled[i].objects) \cap Elems(handled[j].objects) = {}
    /\ (run_pc = "exit0" /\ runs >= 1) =>
           \A g \in 1..6 : \A id \in Elems(DetectedOfGroup(g)) :
               Cardinality({i \in DOMAIN handled : id \in Elems(handled[i].objects)}) = 1

\* A run that handled a safe and a risky Kustomize record in two groups.
C38_Witness ==
    /\ run_pc = "exit0"
    /\ Len(helm_updates) = 2
    /\ Len(handled) = 2
    /\ handled[1].group = 1
    /\ handled[2].group = 2
    /\ Len(handled[1].objects) = 1
    /\ Len(handled[2].objects) = 1

NoDuplicates(s) == \A j, k \in DOMAIN s : j /= k => s[j] /= s[k]

RECURSIVE WrittenByGroups(_)
WrittenByGroups(h) ==
    IF h = <<>> THEN <<>> ELSE h[1].written \o WrittenByGroups(Tail(h))

\* C39: the three detectors return at most one record per scanned file, so
\* a run writes no file twice, and no record of the run finds on the
\* branch a blob that an earlier commit of the same run put there.
C39_OneRecordPerFileAndRun ==
    /\ NoDuplicates(helm_updates \o image_updates \o chart_updates)
    /\ NoDuplicates(WrittenByGroups(handled))
    /\ \A i, j \in DOMAIN handled :
           i < j => Elems(handled[i].written) \cap Elems(handled[j].objects) = {}
    /\ \A i \in DOMAIN handled :
           handled[i].stale \cap Elems(WrittenByGroups(handled)) = {}

\* A live run wrote two files in two groups.
C39_Witness ==
    /\ run_pc = "exit0"
    /\ Len(handled) = 2
    /\ handled[1].live
    /\ Len(handled[1].written) = 1
    /\ Len(handled[2].written) = 1
    /\ handled[1].written /= handled[2].written

\* Place of a record in the order Kustomize-safe, Kustomize-risky,
\* Image-safe, Image-risky, Chart-safe, Chart-risky.
PipelinePlace(id) ==
    (IF world[id].update_type = "KustomizeChart" THEN 1
     ELSE IF world[id].update_type = "Image" THEN 3 ELSE 5)
        + (IF is_minor_or_patch(world, id) THEN 0 ELSE 1)

\* C40: a run that has handled a group or made a mutating call has first
\* read the repository, scanned it and checked every tracked file; the
\* groups are handled in the order Kustomize-safe, Kustomize-risky,
\* Image-safe, Image-risky, Chart-safe, Chart-risky, and each handled group
\* holds the records of its place only.
C40_ScanDetectThenGroupsInOrder ==
    /\ (handled /= <<>> \/ calls /= <<>>) =>
           /\ Len(reads) = 2 + MaxUpd
           /\ reads[1] = "get_repo"
           /\ reads[2] = "get_contents"
           /\ \A k \in 3..Len(reads) : reads[k] = "resolve"
           /\ \A i \in DOMAIN handled :
                  Elems(handled[i].objects) \subseteq
                      Elems(helm_updates \o image_updates \o chart_updates)
    /\ \A i, j \in DOMAIN handled : i < j => handled[i].group < handled[j].group
    /\ \A i \in DOMAIN handled :
           \A id \in Elems(handled[i].objects) : PipelinePlace(id) = handled[i].group

\* A live run handled a safe Kustomize group and then a risky image group.
C40_Witness ==
    /\ Len(handled) = 2
    /\ handled[1].group = 1
    /\ handled[2].group = 4
    /\ handled[1].live
    /\ calls /= <<>>

\* The remote side of entry k offers a version (tag) other than the pinned
\* one of the parsed document.
EntryDiffers(k) ==
    IF ent_category = "chart"
    THEN LET rv == stable_versions_sorted(
                       IF ent_remote[k].fetched /\ ent_remote[k].present
                       THEN ent_remote[k].versions ELSE <<>>)
         IN  rv /= <<>> /\ rv[1] /= ent_original[k]
    ELSE LET latest == get_latest_image_tag_from(ent_remote[k])
         IN  /\ ~OtherRegistryHost(ent_original[k])
             /\ latest.some
             /\ ~EndsWith(ent_original[k], <<":">> \o latest.val)

Rewritten == {k \in DOMAIN ent_doc : ent_doc[k] /= ent_original[k]}

\* C33: a record returned by check_for_chart_update or
\* check_for_image_update is for the first entry, in document order, whose
\* remote version (tag) differs from the pinned one; that entry is the
\* only one rewritten, and no entry after it has been evaluated.  A
\* Chart.yaml with a differing dependency always yields that record.
C33_FirstDifferingEntryOnly ==
    /\ Cardinality(Rewritten) <= 1
    /\ \A k \in DOMAIN ent_evaluated : ent_evaluated[k] = k
    /\ ent_result.kind = "record" =>
           /\ ent_pc = "returned"
           /\ Rewritten = {ent_result.at}
           /\ EntryDiffers(ent_result.at)
           /\ \A j \in 1..(ent_result.at - 1) : ~EntryDiffers(j)
           /\ Len(ent_evaluated) = ent_result.at
    /\ ent_result.kind /= "record" => Rewritten = {}
    /\ (ent_pc = "returned" /\ ent_category = "chart"
            /\ \E k \in DOMAIN ent_original : EntryDiffers(k)) =>
           ent_result.kind = "record"

\* The second of three dependencies is behind and the third one too: the
\* record is for the second one and the third one was not looked at.
C33_Witness ==
    /\ ent_pc = "returned"
    /\ ent_category = "chart"
    /\ Len(ent_doc) = 3
    /\ ent_remote[3] = IndexWith(<<C_1_10_0, C_1_2_0>>)
    /\ ent_result = [kind |-> "record", at |-> 2]
    /\ ent_evaluated = <<1, 2>>
    /\ ent_doc[3] = C_1_2_0

C33_WitnessContainers ==
    /\ ent_pc = "returned"
    /\ ent_category = "deployment"
    /\ Len(ent_doc) = 3
    /\ ent_remote[3] = Some(<<T_1_2_0, T_1_3_0>>)
    /\ ent_result = [kind |-> "record", at |-> 2]
    /\ ent_evaluated = <<1, 2>>

====
